---- MODULE Spec2Model ----
(***************************************************************************)
(* Model of the CAMEL playground's agent provisioning: the three call      *)
(* sites create_agent (pages/01_Chat_Agents.py), create_model_instance     *)
(* (pages/02_Role_Playing.py) and create_agent_for_task_automation         *)
(* (pages/03_Task_Automation.py), create_simple_agent (example_usage.py),  *)
(* the button handlers of the pages that call them, the conversations and *)
(* task lists of the pages with their save actions and the analytics that  *)
(* read the saved files back, and the key management of the Home page.     *)
(*                                                                         *)
(* Python strings on which the code computes (strip, lower, split, in) are *)
(* sequences of one-character strings, so that these conversions are       *)
(* computed and not assumed.                                               *)
(***************************************************************************)
EXTENDS Integers, Sequences, FiniteSets, TLC

VARIABLES
    env,                                 \* os.environ: the credential variables
    agent,                               \* st.session_state.agent
    role_playing_session,                \* st.session_state.role_playing_session
    role_playing_messages,               \* st.session_state.role_playing_messages
    role_playing_conversation_history,   \* st.session_state.role_playing_conversation_history
    nextId,                              \* number of handles the session has been given so far
    last,                                \* the most recent invocation: its arguments and what it did
    messages,                            \* st.session_state.messages
    tasks,                               \* st.session_state.tasks
    task_status,                         \* st.session_state.task_status
    task_outputs,                        \* st.session_state.task_outputs
    clock,                               \* datetime.now(), in whole seconds
    files,                               \* the JSON files of the three history directories
    dotenv,                              \* the entries of the file .env
    primary_camel_provider,              \* os.environ: PRIMARY_CAMEL_PROVIDER
    selected_provider_index              \* st.session_state.selected_provider_index (Home)

vars == <<env, agent, role_playing_session, role_playing_messages,
          role_playing_conversation_history, nextId, last,
          messages, tasks, task_status, task_outputs, clock, files,
          dotenv, primary_camel_provider, selected_provider_index>>

session_vars == <<agent, role_playing_session, role_playing_messages,
                  role_playing_conversation_history, nextId>>

\* what the provisioning functions and buttons neither read nor write
other_vars == <<messages, tasks, task_status, task_outputs, clock, files,
                dotenv, primary_camel_provider, selected_provider_index>>

\* Python's None.  TLC compares a record only with records and a sequence only
\* with sequences, so None is written None where an object (a handle, an
\* exception) may stand and NoneStr where a string or an enum member may stand.
None == [class |-> "NoneType"]
NoneStr == <<"None">>

\* bool(x) of a string or None: None and the empty string are falsy
truthy_none_only(x) == x # NoneStr
truthy(x) == x # NoneStr /\ x # <<>>

\* x is None
is_none_never(x) == FALSE
is_none(x) == x = None

-----------------------------------------------------------------------------
(* str.lower, str.strip, str.split(":", 1), ":" in s *)

UPPERCASE == <<"A","B","C","D","E","F","G","H","I","J","K","L","M",
               "N","O","P","Q","R","S","T","U","V","W","X","Y","Z">>
LOWERCASE == <<"a","b","c","d","e","f","g","h","i","j","k","l","m",
               "n","o","p","q","r","s","t","u","v","w","x","y","z">>
WHITESPACE == {" ", "\t", "\n"}

\* the lower-case letter of each upper-case letter
LOWER_OF == [c \in {UPPERCASE[i] : i \in DOMAIN UPPERCASE} |->
                LOWERCASE[CHOOSE i \in DOMAIN UPPERCASE : UPPERCASE[i] = c]]

lower_char(c) == IF c \in DOMAIN LOWER_OF THEN LOWER_OF[c] ELSE c

lower_identity(s) == s
lower(s) == [i \in 1..Len(s) |-> lower_char(s[i])]

strip_identity(s) == s
strip(s) ==
    IF \A i \in 1..Len(s) : s[i] \in WHITESPACE THEN <<>>
    ELSE SubSeq(s,
                CHOOSE i \in 1..Len(s) :
                    s[i] \notin WHITESPACE /\ \A j \in 1..(i - 1) : s[j] \in WHITESPACE,
                CHOOSE i \in 1..Len(s) :
                    s[i] \notin WHITESPACE /\ \A j \in (i + 1)..Len(s) : s[j] \in WHITESPACE)

has_colon(s) == \E i \in 1..Len(s) : s[i] = ":"

split_colon(s) ==
    LET k == CHOOSE i \in 1..Len(s) : s[i] = ":" /\ \A j \in 1..(i - 1) : s[j] # ":"
    IN  <<SubSeq(s, 1, k - 1), SubSeq(s, k + 1, Len(s))>>

-----------------------------------------------------------------------------
(* The external capabilities: what each may do when it is called.  The     *)
(* first capability that raises ends the try block, so an outcome names at *)
(* most one capability that does not succeed.                              *)

Ok == [do |-> "ok"]
ReturnsNone == [do |-> "none"]
Exceptions == { [do |-> "raise", type |-> "ValueError", msg |-> "invalid model type"],
                [do |-> "raise", type |-> "RuntimeError", msg |-> "provider unavailable"] }

AllOk == [config |-> Ok, factory |-> Ok, message |-> Ok, agent |-> Ok, role_playing |-> Ok]

ExtOutcomes ==
    {AllOk}
    \cup {[AllOk EXCEPT !.config = e] : e \in Exceptions}
    \cup {[AllOk EXCEPT !.factory = e] : e \in Exceptions \cup {ReturnsNone}}
    \cup {[AllOk EXCEPT !.message = e] : e \in Exceptions}
    \cup {[AllOk EXCEPT !.agent = e] : e \in Exceptions}

-----------------------------------------------------------------------------
(* Events of one invocation, in the order the code performs them *)

MAX_TOKENS == 4096
EXAMPLE_MAX_TOKENS == 1000
TEMPERATURE == "0.7"

GetEnv(key) == [op |-> "os.getenv", key |-> key, value |-> env[key]]

StError(kind) == [op |-> "st.error", kind |-> kind, msg |-> ""]
StErrorMsg(kind, msg) == [op |-> "st.error", kind |-> kind, msg |-> msg]

\* ModelType.<member>
ModelType(member) == <<"ModelType", member>>

\* the handle ModelFactory.create returns: opaque, known by what it was made from
ModelHandle(model_platform, model_type, api_key) ==
    [class |-> "Model", model_platform |-> model_platform,
     model_type |-> model_type, api_key |-> api_key]

FactoryCall(model_platform, model_type, model_config_dict, api_key, ext) ==
    [op |-> "ModelFactory.create", model_platform |-> model_platform,
     model_type |-> model_type, model_config_dict |-> model_config_dict,
     api_key |-> api_key,
     returned |-> IF ext.factory = Ok
                  THEN ModelHandle(model_platform, model_type, api_key)
                  ELSE None]

\* the handle ChatAgent(...) returns
AgentHandle(system_message, model) ==
    [class |-> "ChatAgent", system_message |-> system_message, model |-> model]

AgentCall(system_message, model, ext) ==
    [op |-> "ChatAgent", system_message |-> system_message, model |-> model,
     returned |-> IF ext.agent = Ok THEN AgentHandle(system_message, model) ELSE None]

\* f"You are a {role}. {role_description}"
system_prompt(role, role_description) == <<"You are a ", role, ". ", role_description>>

\* BaseMessage.make_assistant_message(role_name=..., content=...)
make_assistant_message(role_name, content) ==
    [class |-> "BaseMessage", role_name |-> role_name, content |-> content]

-----------------------------------------------------------------------------
(* Control flow of a function body: it returns a value, raises, or goes on *)

Return(value, trace) == [kind |-> "return", value |-> value, trace |-> trace]
Raise(exc, trace) == [kind |-> "raise", value |-> exc, trace |-> trace]
Continue(value, trace) == [kind |-> "continue", value |-> value, trace |-> trace]

\* "except <type>" catches an exception of that type or of a subclass of it;
\* ValueError and RuntimeError are subclasses of Exception
catches_exact_type(handler_type, exc) == handler_type = exc.type
catches(handler_type, exc) == handler_type = "Exception" \/ handler_type = exc.type

\* try: body  except h1: ...  except h2: ...   where every handler reports
\* one error carrying str(e) and returns None
try_except_retry_once(body, handlers) ==
    IF body.kind = "raise"
    THEN [ret |-> None,
          trace |-> Append(body.trace \o body.trace,
                           StErrorMsg(handlers[1].kind, body.value.msg)),
          exc |-> body.value, escaped |-> FALSE]
    ELSE [ret |-> body.value, trace |-> body.trace, exc |-> None, escaped |-> FALSE]
try_except(body, handlers) ==
    IF body.kind = "raise"
    THEN LET caught == {i \in DOMAIN handlers : catches(handlers[i].type, body.value)} IN
         IF caught = {}
         THEN [ret |-> None, trace |-> body.trace, exc |-> body.value, escaped |-> TRUE]
         ELSE LET h == handlers[CHOOSE i \in caught : \A j \in caught : i <= j] IN
              [ret |-> None,
               trace |-> Append(body.trace, StErrorMsg(h.kind, body.value.msg)),
               exc |-> body.value, escaped |-> FALSE]
    ELSE [ret |-> body.value, trace |-> body.trace, exc |-> None, escaped |-> FALSE]

\* a function that returns before its try block
returns(value, trace) == [ret |-> value, trace |-> trace, exc |-> None, escaped |-> FALSE]

-----------------------------------------------------------------------------
(* The provider dispatch of create_agent and create_model_instance *)

\* the if/elif chain on provider_lower, one entry per branch in the order of
\* the code: the credential variable the branch reads, the platform it passes
\* and the config class it builds the options with (OpenRouter: the plain dict)
PROVIDER_CHAIN_ONE_KEY ==
    << [provider |-> (* "openai" *) <<"o","p","e","n","a","i">>, env_key |-> "OPENAI_API_KEY",
        model_platform |-> "OPENAI", config |-> "ChatGPTConfig"],
       [provider |-> (* "anthropic" *) <<"a","n","t","h","r","o","p","i","c">>, env_key |-> "OPENAI_API_KEY",
        model_platform |-> "ANTHROPIC", config |-> "AnthropicConfig"],
       [provider |-> (* "gemini" *) <<"g","e","m","i","n","i">>, env_key |-> "OPENAI_API_KEY",
        model_platform |-> "GEMINI", config |-> "GeminiConfig"],
       [provider |-> (* "openrouter" *) <<"o","p","e","n","r","o","u","t","e","r">>, env_key |-> "OPENAI_API_KEY",
        model_platform |-> "OPENROUTER", config |-> "dict"] >>
PROVIDER_CHAIN ==
    << [provider |-> (* "openai" *) <<"o","p","e","n","a","i">>, env_key |-> "OPENAI_API_KEY",
        model_platform |-> "OPENAI", config |-> "ChatGPTConfig"],
       [provider |-> (* "anthropic" *) <<"a","n","t","h","r","o","p","i","c">>, env_key |-> "ANTHROPIC_API_KEY",
        model_platform |-> "ANTHROPIC", config |-> "AnthropicConfig"],
       [provider |-> (* "gemini" *) <<"g","e","m","i","n","i">>, env_key |-> "GEMINI_API_KEY",
        model_platform |-> "GEMINI", config |-> "GeminiConfig"],
       [provider |-> (* "openrouter" *) <<"o","p","e","n","r","o","u","t","e","r">>, env_key |-> "OPENROUTER_API_KEY",
        model_platform |-> "OPENROUTER", config |-> "dict"] >>

\* the branch of the provider chain that is taken, or None for the final else
provider_branch_of_held_agent(provider_lower) ==
    IF agent # None \/ role_playing_session # None THEN PROVIDER_CHAIN[1]
    ELSE IF \E i \in DOMAIN PROVIDER_CHAIN : PROVIDER_CHAIN[i].provider = provider_lower
    THEN PROVIDER_CHAIN[CHOOSE i \in DOMAIN PROVIDER_CHAIN :
                            PROVIDER_CHAIN[i].provider = provider_lower]
    ELSE None
provider_branch(provider_lower) ==
    IF \E i \in DOMAIN PROVIDER_CHAIN : PROVIDER_CHAIN[i].provider = provider_lower
    THEN PROVIDER_CHAIN[CHOOSE i \in DOMAIN PROVIDER_CHAIN :
                            PROVIDER_CHAIN[i].provider = provider_lower]
    ELSE None

\* model_config_dict = {"max_tokens": 4096, "temperature": 0.7}, passed through
\* <Config>(**model_config_dict).as_dict() except for OpenRouter
model_config_dict(config) ==
    [class |-> config, max_tokens |-> MAX_TOKENS, temperature |-> TEMPERATURE]

\* The if/elif chains on model_name.lower(), one entry per branch in the order
\* of the code: the names the branch tests for and the model_type it assigns,
\* which is model_name.lower() ("lower"), model_name ("name") or a ModelType
\* member.  A name no branch tests for takes the else: model_type = model_name.
OPENAI_MODEL_CHAIN_ENUM_MEMBERS ==
    << [names |-> {(* "gpt-4o" *) <<"g","p","t","-","4","o">>, (* "gpt-4o-mini" *) <<"g","p","t","-","4","o","-","m","i","n","i">>}, model_type |-> ModelType("GPT_4O")],
       [names |-> {(* "gpt-4.1" *) <<"g","p","t","-","4",".","1">>, (* "gpt-4.1-mini" *) <<"g","p","t","-","4",".","1","-","m","i","n","i">>}, model_type |-> ModelType("GPT_4_1")],
       [names |-> {(* "o3" *) <<"o","3">>, (* "o4-mini" *) <<"o","4","-","m","i","n","i">>}, model_type |-> ModelType("O3")],
       [names |-> {(* "gpt-4" *) <<"g","p","t","-","4">>}, model_type |-> ModelType("GPT_4")],
       [names |-> {(* "gpt-3.5-turbo" *) <<"g","p","t","-","3",".","5","-","t","u","r","b","o">>, (* "gpt-3.5" *) <<"g","p","t","-","3",".","5">>}, model_type |-> ModelType("GPT_3_5_TURBO")] >>
OPENAI_MODEL_CHAIN ==
    << [names |-> {(* "gpt-4o" *) <<"g","p","t","-","4","o">>, (* "gpt-4o-mini" *) <<"g","p","t","-","4","o","-","m","i","n","i">>}, model_type |-> <<"lower">>],
       [names |-> {(* "gpt-4.1" *) <<"g","p","t","-","4",".","1">>, (* "gpt-4.1-mini" *) <<"g","p","t","-","4",".","1","-","m","i","n","i">>}, model_type |-> <<"lower">>],
       [names |-> {(* "o3" *) <<"o","3">>, (* "o4-mini" *) <<"o","4","-","m","i","n","i">>}, model_type |-> <<"lower">>],
       [names |-> {(* "gpt-4" *) <<"g","p","t","-","4">>}, model_type |-> ModelType("GPT_4")],
       [names |-> {(* "gpt-3.5-turbo" *) <<"g","p","t","-","3",".","5","-","t","u","r","b","o">>, (* "gpt-3.5" *) <<"g","p","t","-","3",".","5">>}, model_type |-> ModelType("GPT_3_5_TURBO")] >>

ANTHROPIC_MODEL_CHAIN ==
    << [names |-> {(* "claude-opus-4-20250514" *) <<"c","l","a","u","d","e","-","o","p","u","s","-","4","-","2","0","2","5","0","5","1","4">>, (* "claude-opus-4" *) <<"c","l","a","u","d","e","-","o","p","u","s","-","4">>}, model_type |-> <<"name">>],
       [names |-> {(* "claude-sonnet-4-20250514" *) <<"c","l","a","u","d","e","-","s","o","n","n","e","t","-","4","-","2","0","2","5","0","5","1","4">>, (* "claude-sonnet-4" *) <<"c","l","a","u","d","e","-","s","o","n","n","e","t","-","4">>}, model_type |-> <<"name">>],
       [names |-> {(* "claude-3-7-sonnet-20250219" *) <<"c","l","a","u","d","e","-","3","-","7","-","s","o","n","n","e","t","-","2","0","2","5","0","2","1","9">>, (* "claude-3-7-sonnet" *) <<"c","l","a","u","d","e","-","3","-","7","-","s","o","n","n","e","t">>}, model_type |-> <<"name">>],
       [names |-> {(* "claude-3-5-haiku-20241022" *) <<"c","l","a","u","d","e","-","3","-","5","-","h","a","i","k","u","-","2","0","2","4","1","0","2","2">>, (* "claude-3-5-haiku-latest" *) <<"c","l","a","u","d","e","-","3","-","5","-","h","a","i","k","u","-","l","a","t","e","s","t">>}, model_type |-> <<"name">>],
       [names |-> {(* "claude-3-5-sonnet-latest" *) <<"c","l","a","u","d","e","-","3","-","5","-","s","o","n","n","e","t","-","l","a","t","e","s","t">>, (* "claude-3-5-sonnet" *) <<"c","l","a","u","d","e","-","3","-","5","-","s","o","n","n","e","t">>},
        model_type |-> ModelType("CLAUDE_3_5_SONNET")],
       [names |-> {(* "claude-3-5-haiku-latest" *) <<"c","l","a","u","d","e","-","3","-","5","-","h","a","i","k","u","-","l","a","t","e","s","t">>, (* "claude-3-5-haiku" *) <<"c","l","a","u","d","e","-","3","-","5","-","h","a","i","k","u">>},
        model_type |-> ModelType("CLAUDE_3_5_HAIKU")],
       [names |-> {(* "claude-2" *) <<"c","l","a","u","d","e","-","2">>}, model_type |-> ModelType("CLAUDE_2_1")] >>

GEMINI_MODEL_CHAIN ==
    << [names |-> {(* "gemini-2.5-pro-preview-05-06" *) <<"g","e","m","i","n","i","-","2",".","5","-","p","r","o","-","p","r","e","v","i","e","w","-","0","5","-","0","6">>, (* "gemini-2.5-pro" *) <<"g","e","m","i","n","i","-","2",".","5","-","p","r","o">>}, model_type |-> <<"name">>],
       [names |-> {(* "gemini-2.5-flash-preview-05-20" *) <<"g","e","m","i","n","i","-","2",".","5","-","f","l","a","s","h","-","p","r","e","v","i","e","w","-","0","5","-","2","0">>, (* "gemini-2.5-flash" *) <<"g","e","m","i","n","i","-","2",".","5","-","f","l","a","s","h">>}, model_type |-> <<"name">>],
       [names |-> {(* "gemini-2.0-flash" *) <<"g","e","m","i","n","i","-","2",".","0","-","f","l","a","s","h">>, (* "gemini-2-0-flash" *) <<"g","e","m","i","n","i","-","2","-","0","-","f","l","a","s","h">>},
        model_type |-> ModelType("GEMINI_2_0_FLASH")],
       [names |-> {(* "gemini-1.5-pro" *) <<"g","e","m","i","n","i","-","1",".","5","-","p","r","o">>, (* "gemini-1-5-pro" *) <<"g","e","m","i","n","i","-","1","-","5","-","p","r","o">>},
        model_type |-> ModelType("GEMINI_1_5_PRO")],
       [names |-> {(* "gemini-1.5-flash" *) <<"g","e","m","i","n","i","-","1",".","5","-","f","l","a","s","h">>, (* "gemini-1-5-flash" *) <<"g","e","m","i","n","i","-","1","-","5","-","f","l","a","s","h">>},
        model_type |-> ModelType("GEMINI_1_5_FLASH")] >>

\* the chain of a platform; the OpenRouter branch has none
model_chain(model_platform) ==
    IF model_platform = "OPENAI" THEN OPENAI_MODEL_CHAIN
    ELSE IF model_platform = "ANTHROPIC" THEN ANTHROPIC_MODEL_CHAIN
    ELSE IF model_platform = "GEMINI" THEN GEMINI_MODEL_CHAIN
    ELSE <<>>

\* the model_type the branch of a platform hands to the factory: that of the
\* first branch of the chain that tests for model_name.lower(), else model_name
model_type_for_always_lower(model_platform, model_name) == lower(model_name)
model_type_for(model_platform, model_name) ==
    LET chain == model_chain(model_platform)
        n == lower(model_name)
        hits == {i \in DOMAIN chain : n \in chain[i].names}
        first == chain[CHOOSE i \in hits : \A j \in hits : i <= j].model_type
    IN
    IF hits = {} THEN model_name
    ELSE IF first = <<"lower">> THEN n
    ELSE IF first = <<"name">> THEN model_name
    ELSE first

\* the try block up to "if model_instance is None": the branch's credential
\* check, the model-type chain, the config constructor and the factory call
create_model(provider_name, model_name, ext) ==
    LET provider_lower == lower(provider_name)
        branch == provider_branch(provider_lower)
    IN
    IF branch = None THEN Return(None, <<StError("InvalidProvider")>>)
    ELSE
    LET api_key == env[branch.env_key]
        read == <<GetEnv(branch.env_key)>>
    IN
    IF ~truthy(api_key) THEN Return(None, Append(read, StError("MissingCredential")))
    ELSE
    LET model_type == model_type_for(branch.model_platform, model_name)
        call == FactoryCall(branch.model_platform, model_type,
                            model_config_dict(branch.config), api_key, ext)
    IN
    IF branch.config # "dict" /\ ext.config.do = "raise" THEN Raise(ext.config, read)
    ELSE IF ext.factory.do = "raise" THEN Raise(ext.factory, Append(read, call))
    ELSE Continue(call.returned, Append(read, call))

\* the rest of create_agent's try block
build_agent(model, role, role_description, ext) ==
    IF model.kind # "continue" THEN model
    ELSE IF is_none(model.value)
    THEN Return(None, Append(model.trace, StError("ModelCreationFailed")))
    ELSE IF ext.message.do = "raise" THEN Raise(ext.message, model.trace)
    ELSE
    LET system_message ==
            make_assistant_message(role, system_prompt(role, role_description))
        call == AgentCall(system_message, model.value, ext)
    IN
    IF ext.agent.do = "raise" THEN Raise(ext.agent, Append(model.trace, call))
    ELSE Return(call.returned, Append(model.trace, call))

\* the rest of create_model_instance's try block
return_model(model) ==
    IF model.kind # "continue" THEN model
    ELSE IF is_none(model.value)
    THEN Return(None, Append(model.trace, StError("ModelCreationFailed")))
    ELSE Return(model.value, model.trace)

create_agent(provider_name, model_name_arg, role, role_description, ext) ==
    LET model_name == strip(model_name_arg) IN
    IF ~truthy(provider_name) THEN returns(None, <<StError("EmptyProvider")>>)
    ELSE IF ~truthy(model_name) THEN returns(None, <<StError("EmptyModel")>>)
    ELSE try_except(build_agent(create_model(provider_name, model_name, ext),
                                role, role_description, ext),
                    <<[type |-> "Exception", kind |-> "ProvisioningFailed"]>>)

create_model_instance(provider_name, model_name_arg, ext) ==
    LET model_name == strip(model_name_arg) IN
    IF ~truthy(provider_name) THEN returns(None, <<StError("EmptyProvider")>>)
    ELSE IF ~truthy(model_name) THEN returns(None, <<StError("EmptyModel")>>)
    ELSE try_except(return_model(create_model(provider_name, model_name, ext)),
                    <<[type |-> "Exception", kind |-> "ProvisioningFailed"]>>)

-----------------------------------------------------------------------------
(* create_agent_for_task_automation *)

\* the if/elif chain on provider_from_input, one entry per branch
PREFIX_CHAIN ==
    << [provider |-> (* "openai" *) <<"o","p","e","n","a","i">>, platform_to_pass |-> "OPENAI",
        api_key_env_var |-> "OPENAI_API_KEY"],
       [provider |-> (* "anthropic" *) <<"a","n","t","h","r","o","p","i","c">>, platform_to_pass |-> "ANTHROPIC",
        api_key_env_var |-> "ANTHROPIC_API_KEY"],
       [provider |-> (* "gemini" *) <<"g","e","m","i","n","i">>, platform_to_pass |-> "GEMINI",
        api_key_env_var |-> "GEMINI_API_KEY"],
       [provider |-> (* "openrouter" *) <<"o","p","e","n","r","o","u","t","e","r">>, platform_to_pass |-> "OPENROUTER",
        api_key_env_var |-> "OPENROUTER_API_KEY"] >>

\* the branch of the prefix chain that is taken, or None for the final else
prefix_branch_defaults_to_openai(provider_from_input) ==
    IF \E i \in DOMAIN PREFIX_CHAIN : PREFIX_CHAIN[i].provider = provider_from_input
    THEN PREFIX_CHAIN[CHOOSE i \in DOMAIN PREFIX_CHAIN :
                          PREFIX_CHAIN[i].provider = provider_from_input]
    ELSE PREFIX_CHAIN[1]
prefix_branch(provider_from_input) ==
    IF \E i \in DOMAIN PREFIX_CHAIN : PREFIX_CHAIN[i].provider = provider_from_input
    THEN PREFIX_CHAIN[CHOOSE i \in DOMAIN PREFIX_CHAIN :
                          PREFIX_CHAIN[i].provider = provider_from_input]
    ELSE None

\* the if/elif chain on lower_input, for an input without a prefix, one entry
\* per branch
SHORT_NAME_CHAIN ==
    << [names |-> {(* "gpt-4" *) <<"g","p","t","-","4">>}, model_spec_to_pass |-> ModelType("GPT_4"),
        platform_to_pass |-> "OPENAI", api_key_env_var |-> "OPENAI_API_KEY"],
       [names |-> {(* "gpt-3.5-turbo" *) <<"g","p","t","-","3",".","5","-","t","u","r","b","o">>, (* "gpt-3.5" *) <<"g","p","t","-","3",".","5">>},
        model_spec_to_pass |-> ModelType("GPT_35_TURBO"),
        platform_to_pass |-> "OPENAI", api_key_env_var |-> "OPENAI_API_KEY"],
       [names |-> {(* "claude-2" *) <<"c","l","a","u","d","e","-","2">>}, model_spec_to_pass |-> ModelType("CLAUDE_2"),
        platform_to_pass |-> "ANTHROPIC", api_key_env_var |-> "ANTHROPIC_API_KEY"] >>

\* the branch of the short-name chain that is taken, or None for the final else
short_name_branch(lower_input) ==
    IF \E i \in DOMAIN SHORT_NAME_CHAIN : lower_input \in SHORT_NAME_CHAIN[i].names
    THEN SHORT_NAME_CHAIN[CHOOSE i \in DOMAIN SHORT_NAME_CHAIN :
                              lower_input \in SHORT_NAME_CHAIN[i].names]
    ELSE None

\* isinstance(model_spec_to_pass, ModelType)
is_ModelType(x) == Len(x) = 2 /\ x[1] = "ModelType"

\* model_config = {"max_tokens": 4096}
task_model_config == [class |-> "dict", max_tokens |-> MAX_TOKENS]

\* the first part of the try block: what the input names, or the error that ends it
task_resolve(model_name_input_stripped) ==
    IF has_colon(model_name_input_stripped) THEN
        LET parts == split_colon(model_name_input_stripped)
            provider_from_input == lower(parts[1])
            model_name_from_input == parts[2]
            branch == prefix_branch(provider_from_input)
        IN
        IF ~truthy(model_name_from_input)
        THEN Return(None, <<StError("ModelMissingAfterPrefix")>>)
        ELSE IF branch = None THEN Return(None, <<StError("UnknownProviderPrefix")>>)
        ELSE Continue([model_spec_to_pass |-> model_name_from_input,
                       platform_to_pass |-> branch.platform_to_pass,
                       api_key_env_var |-> branch.api_key_env_var], <<>>)
    ELSE
        LET branch == short_name_branch(lower(model_name_input_stripped)) IN
        IF branch = None THEN Return(None, <<StError("UnknownModel")>>)
        ELSE Continue([model_spec_to_pass |-> branch.model_spec_to_pass,
                       platform_to_pass |-> branch.platform_to_pass,
                       api_key_env_var |-> branch.api_key_env_var], <<>>)

\* the rest of the try block: credential check, factory call, agent constructor.
\* Every branch of task_resolve sets platform_to_pass and api_key_env_var, so the
\* final else ("Ambiguous configuration") of the factory dispatch is never taken.
task_build(resolved, role, role_description, ext) ==
    IF resolved.kind # "continue" THEN resolved
    ELSE
    LET r == resolved.value
        api_key_present == truthy(env[r.api_key_env_var])
        read == <<GetEnv(r.api_key_env_var)>>
        reads == <<GetEnv(r.api_key_env_var), GetEnv(r.api_key_env_var)>>
        call == FactoryCall(IF is_ModelType(r.model_spec_to_pass)
                            THEN "omitted" ELSE r.platform_to_pass,
                            r.model_spec_to_pass, task_model_config,
                            env[r.api_key_env_var], ext)
        agent_call == AgentCall(system_prompt(role, role_description), call.returned, ext)
    IN
    IF ~api_key_present THEN Return(None, Append(read, StError("MissingCredential")))
    ELSE IF ext.factory.do = "raise" THEN Raise(ext.factory, Append(reads, call))
    ELSE IF is_none(call.returned)
    THEN Return(None, reads \o <<call, StError("ModelCreationFailed")>>)
    ELSE IF ext.agent.do = "raise" THEN Raise(ext.agent, reads \o <<call, agent_call>>)
    ELSE Return(agent_call.returned, reads \o <<call, agent_call>>)

create_agent_for_task_automation(model_name_input, role, role_description, ext) ==
    LET model_name_input_stripped == strip(model_name_input) IN
    IF ~truthy(model_name_input_stripped) THEN returns(None, <<StError("EmptyModel")>>)
    ELSE try_except(task_build(task_resolve(model_name_input_stripped),
                               role, role_description, ext),
                    <<[type |-> "ValueError", kind |-> "ConfigurationError"],
                      [type |-> "Exception", kind |-> "UnexpectedError"]>>)

-----------------------------------------------------------------------------
(* create_simple_agent (example_usage.py): errors go to print *)

PrintError(kind, msg) == [op |-> "print", kind |-> kind, msg |-> msg]

SIMPLE_AGENT_MODEL == (* "gpt-4.1-mini" *) <<"g","p","t","-","4",".","1","-","m","i","n","i">>

simple_agent_message ==
    make_assistant_message("Python Expert",
                           "You are a helpful Python programming expert. You provide clear, concise, and practical Python code examples and explanations.")

simple_agent_build(api_key, read, ext) ==
    LET call == FactoryCall("OPENAI", SIMPLE_AGENT_MODEL,
                            [class |-> "ChatGPTConfig", max_tokens |-> EXAMPLE_MAX_TOKENS,
                             temperature |-> TEMPERATURE],
                            api_key, ext)
        agent_call == AgentCall(simple_agent_message, call.returned, ext)
    IN
    IF ext.config.do = "raise" THEN Raise(ext.config, read)
    ELSE IF ext.factory.do = "raise" THEN Raise(ext.factory, Append(read, call))
    ELSE IF ext.message.do = "raise" THEN Raise(ext.message, Append(read, call))
    ELSE IF ext.agent.do = "raise" THEN Raise(ext.agent, read \o <<call, agent_call>>)
    ELSE Return(agent_call.returned, read \o <<call, agent_call>>)

create_simple_agent(ext) ==
    LET api_key == env["OPENAI_API_KEY"]
        read == <<GetEnv("OPENAI_API_KEY")>>
        body == simple_agent_build(api_key, read, ext)
    IN
    IF ~truthy(api_key) THEN returns(None, Append(read, PrintError("MissingCredential", "")))
    ELSE IF body.kind = "raise"
    THEN IF catches("Exception", body.value)
         THEN [ret |-> None,
               trace |-> Append(body.trace, PrintError("ProvisioningFailed", body.value.msg)),
               exc |-> body.value, escaped |-> FALSE]
         ELSE [ret |-> None, trace |-> body.trace, exc |-> body.value, escaped |-> TRUE]
    ELSE returns(body.value, body.trace)

-----------------------------------------------------------------------------
(* Inputs *)

ENV_KEYS == {"OPENAI_API_KEY", "ANTHROPIC_API_KEY", "GEMINI_API_KEY", "OPENROUTER_API_KEY"}

\* a credential variable is unset (None), set to the empty string, or set
CredentialValues == {NoneStr, <<>>, (* "sk-1" *) <<"s","k","-","1">>}

ProviderInputs ==
    { (* "" *) <<>>, (* "OpenAI" *) <<"O","p","e","n","A","I">>, (* "openai" *) <<"o","p","e","n","a","i">>, (* "OPENAI" *) <<"O","P","E","N","A","I">>, (* "Anthropic" *) <<"A","n","t","h","r","o","p","i","c">>, (* "ANTHROPIC" *) <<"A","N","T","H","R","O","P","I","C">>,
      (* "Gemini" *) <<"G","e","m","i","n","i">>, (* "gEMINI" *) <<"g","E","M","I","N","I">>, (* "OpenRouter" *) <<"O","p","e","n","R","o","u","t","e","r">>, (* "openrouter" *) <<"o","p","e","n","r","o","u","t","e","r">>, (* "Cohere" *) <<"C","o","h","e","r","e">>, (* " openai" *) <<" ","o","p","e","n","a","i">> }

ModelInputs ==
    { (* "" *) <<>>, (* "  " *) <<" "," ">>, (* "gpt-4.1-mini" *) <<"g","p","t","-","4",".","1","-","m","i","n","i">>, (* "GPT-4O" *) <<"G","P","T","-","4","O">>, (* " gpt-4 " *) <<" ","g","p","t","-","4"," ">>, (* "gpt-3.5" *) <<"g","p","t","-","3",".","5">>, (* "My-Model" *) <<"M","y","-","M","o","d","e","l">>,
      (* "claude-sonnet-4-20250514" *) <<"c","l","a","u","d","e","-","s","o","n","n","e","t","-","4","-","2","0","2","5","0","5","1","4">>, (* "Claude-2" *) <<"C","l","a","u","d","e","-","2">>, (* "claude-3-5-haiku-latest" *) <<"c","l","a","u","d","e","-","3","-","5","-","h","a","i","k","u","-","l","a","t","e","s","t">>,
      (* "gemini-2.0-flash" *) <<"g","e","m","i","n","i","-","2",".","0","-","f","l","a","s","h">>, (* "Gemini-2.5-Pro" *) <<"G","e","m","i","n","i","-","2",".","5","-","P","r","o">>, (* "google/gemini-flash-1.5" *) <<"g","o","o","g","l","e","/","g","e","m","i","n","i","-","f","l","a","s","h","-","1",".","5">>,
      (* "anthropic:claude-sonnet-4-20250514" *) <<"a","n","t","h","r","o","p","i","c",":","c","l","a","u","d","e","-","s","o","n","n","e","t","-","4","-","2","0","2","5","0","5","1","4">>, (* "openai:gpt-4" *) <<"o","p","e","n","a","i",":","g","p","t","-","4">> }

TaskModelInputs ==
    { (* "" *) <<>>, (* " \t" *) <<" ","\t">>, (* "gpt-4" *) <<"g","p","t","-","4">>, (* "GPT-3.5-turbo" *) <<"G","P","T","-","3",".","5","-","t","u","r","b","o">>, (* "gpt-3.5" *) <<"g","p","t","-","3",".","5">>, (* " claude-2\n" *) <<" ","c","l","a","u","d","e","-","2","\n">>, (* "gpt-4o" *) <<"g","p","t","-","4","o">>,
      (* "My-Model" *) <<"M","y","-","M","o","d","e","l">>, (* "openai:gpt-4" *) <<"o","p","e","n","a","i",":","g","p","t","-","4">>, (* "OpenAI:My-Model" *) <<"O","p","e","n","A","I",":","M","y","-","M","o","d","e","l">>,
      (* "anthropic:claude-sonnet-4-20250514" *) <<"a","n","t","h","r","o","p","i","c",":","c","l","a","u","d","e","-","s","o","n","n","e","t","-","4","-","2","0","2","5","0","5","1","4">>, (* "gemini:gemini-pro" *) <<"g","e","m","i","n","i",":","g","e","m","i","n","i","-","p","r","o">>,
      (* "openrouter:google/gemini-flash-1.5" *) <<"o","p","e","n","r","o","u","t","e","r",":","g","o","o","g","l","e","/","g","e","m","i","n","i","-","f","l","a","s","h","-","1",".","5">>, (* "openrouter:meta/llama-3:free" *) <<"o","p","e","n","r","o","u","t","e","r",":","m","e","t","a","/","l","l","a","m","a","-","3",":","f","r","e","e">>,
      (* "openai: x" *) <<"o","p","e","n","a","i",":"," ","x">>, (* "openai:" *) <<"o","p","e","n","a","i",":">>, (* "cohere:command-r" *) <<"c","o","h","e","r","e",":","c","o","m","m","a","n","d","-","r">>, (* "cohere:" *) <<"c","o","h","e","r","e",":">>, (* ":gpt-4" *) <<":","g","p","t","-","4">> }

RoleInputs == { <<"AI Assistant", "You are a helpful assistant.">>,
                <<"Task Executor", "You are an efficient task executor.">> }

-----------------------------------------------------------------------------
(* The functions called on their own.  They keep nothing between two        *)
(* invocations (what they read is their arguments and env), so a behaviour  *)
(* is one invocation with any arguments in any environment.                 *)

NoCall == [site |-> "none", provider_name |-> NoneStr, model_name |-> NoneStr,
           role |-> "", role_description |-> "", out |-> returns(None, <<>>)]

Invocation(site, provider_name, model_name, role, role_description, out) ==
    [site |-> site, provider_name |-> provider_name, model_name |-> model_name,
     role |-> role, role_description |-> role_description, out |-> out]

SessionStart ==
    /\ agent = None
    /\ role_playing_session = None
    /\ role_playing_messages = <<>>
    /\ role_playing_conversation_history = <<>>
    /\ nextId = 0
    /\ last = NoCall
    /\ messages = <<>>
    /\ tasks = <<>>
    /\ task_status = <<>>
    /\ task_outputs = <<>>
    /\ selected_provider_index = 0

\* no history file has been written yet; .env holds no entry
DiskStart ==
    /\ clock = 0
    /\ files = {}
    /\ dotenv = <<>>
    /\ primary_camel_provider = NoneStr

Init ==
    /\ env \in [ENV_KEYS -> CredentialValues]
    /\ SessionStart
    /\ DiskStart

\* the pages tell a credential that is set from one that is not
InitPages ==
    /\ env \in [ENV_KEYS -> {NoneStr, (* "sk-1" *) <<"s","k","-","1">>}]
    /\ SessionStart
    /\ DiskStart

CallCreateAgent ==
    /\ last = NoCall
    /\ \E p \in ProviderInputs, m \in ModelInputs, r \in RoleInputs, ext \in ExtOutcomes :
        /\ last' = Invocation("create_agent", p, m, r[1], r[2],
                              create_agent(p, m, r[1], r[2], ext))
        /\ UNCHANGED <<other_vars, env, session_vars>>

CallCreateModelInstance ==
    /\ last = NoCall
    /\ \E p \in ProviderInputs, m \in ModelInputs, ext \in ExtOutcomes :
        /\ last' = Invocation("create_model_instance", p, m, "", "",
                              create_model_instance(p, m, ext))
        /\ UNCHANGED <<other_vars, env, session_vars>>

CallCreateAgentForTaskAutomation ==
    /\ last = NoCall
    /\ \E m \in TaskModelInputs, r \in RoleInputs, ext \in ExtOutcomes :
        /\ last' = Invocation("create_agent_for_task_automation", NoneStr, m, r[1], r[2],
                              create_agent_for_task_automation(m, r[1], r[2], ext))
        /\ UNCHANGED <<other_vars, env, session_vars>>

CallCreateSimpleAgent ==
    /\ last = NoCall
    /\ \E ext \in ExtOutcomes :
        /\ last' = Invocation("create_simple_agent", NoneStr, NoneStr, "", "",
                              create_simple_agent(ext))
        /\ UNCHANGED <<other_vars, env, session_vars>>

-----------------------------------------------------------------------------
(* The pages: the button handlers that provision.  The session keeps of a   *)
(* handle only its identity: the pages test it for truth and call step on   *)
(* it, nothing else.                                                        *)

MaxHandles == 2

\* the provider selectbox of the Chat Agents and Role Playing pages
PROVIDER_OPTIONS ==
    << [label |-> (* "OpenAI" *) <<"O","p","e","n","A","I">>, env_key |-> "OPENAI_API_KEY"],
       [label |-> (* "Anthropic" *) <<"A","n","t","h","r","o","p","i","c">>, env_key |-> "ANTHROPIC_API_KEY"],
       [label |-> (* "Gemini" *) <<"G","e","m","i","n","i">>, env_key |-> "GEMINI_API_KEY"],
       [label |-> (* "OpenRouter" *) <<"O","p","e","n","R","o","u","t","e","r">>, env_key |-> "OPENROUTER_API_KEY"] >>

NO_PROVIDER == (* "(Set API Keys on Home Page)" *) <<"(","S","e","t"," ","A","P","I"," ","K","e","y","s"," ","o","n"," ","H","o","m","e"," ","P","a","g","e",")">>

available_providers ==
    LET set == {PROVIDER_OPTIONS[i].label :
                    i \in {j \in DOMAIN PROVIDER_OPTIONS : truthy(env[PROVIDER_OPTIONS[j].env_key])}}
    IN  IF set = {} THEN {NO_PROVIDER} ELSE set

\* what the user may have typed into a page's model-name field
PageModelInputs == { (* "gpt-4.1-mini" *) <<"g","p","t","-","4",".","1","-","m","i","n","i">>, (* "  " *) <<" "," ">> }
TaskPageModelInputs == { (* "gpt-4" *) <<"g","p","t","-","4">>, (* "openai:gpt-4.1-mini" *) <<"o","p","e","n","a","i",":","g","p","t","-","4",".","1","-","m","i","n","i">>, (* "cohere:command-r" *) <<"c","o","h","e","r","e",":","c","o","m","m","a","n","d","-","r">>, (* " " *) <<" ">> }

\* what the capabilities may do during a button handler
PageExtOutcomes ==
    { AllOk, [AllOk EXCEPT !.factory = ReturnsNone] }
    \cup {[AllOk EXCEPT !.factory = e, !.role_playing = e] :
              e \in {x \in Exceptions : x.type = "RuntimeError"}}
    \cup {[AllOk EXCEPT !.agent = e, !.role_playing = e] :
              e \in {x \in Exceptions : x.type = "ValueError"}}

\* the defaults of the role widgets
CHAT_ROLE == "AI Assistant"
CHAT_ROLE_DESCRIPTION == "You are a helpful assistant."
TASK_ROLE == "Task Executor"
TASK_ROLE_DESCRIPTION == "You are an efficient task executor capable of breaking down and completing complex tasks."

\* the handle the session holds for a value a constructor returned
held_keeps_previous(class, ret) ==
    IF ret = None THEN agent ELSE [class |-> class, id |-> nextId + 1]
held(class, ret) == IF ret = None THEN None ELSE [class |-> class, id |-> nextId + 1]

\* Chat Agents: "Create/Update Agent"
ChatCreateAgentButton ==
    \E selected_provider \in available_providers, custom_model_name \in PageModelInputs,
       ext \in PageExtOutcomes :
        LET out == create_agent(selected_provider, custom_model_name,
                                CHAT_ROLE, CHAT_ROLE_DESCRIPTION, ext)
        IN
        IF selected_provider = NO_PROVIDER
        THEN /\ last' = Invocation("ChatCreateAgentButton", selected_provider,
                                   custom_model_name, CHAT_ROLE, CHAT_ROLE_DESCRIPTION,
                                   returns(None, <<StError("NoProviderSelected")>>))
             /\ UNCHANGED <<other_vars, env, session_vars>>
        ELSE /\ out.ret # None => nextId < MaxHandles
             /\ last' = Invocation("ChatCreateAgentButton", selected_provider,
                                   custom_model_name, CHAT_ROLE, CHAT_ROLE_DESCRIPTION, out)
             /\ agent' = IF out.escaped THEN agent ELSE held("ChatAgent", out.ret)
             /\ nextId' = IF out.ret # None THEN nextId + 1 ELSE nextId
             /\ UNCHANGED <<other_vars, env, role_playing_session, role_playing_messages,
                            role_playing_conversation_history>>

\* Task Automation: "Create/Update Agent"
TaskCreateAgentButton ==
    \E model_name_input \in TaskPageModelInputs, ext \in PageExtOutcomes :
        LET out == create_agent_for_task_automation(model_name_input,
                                                    TASK_ROLE, TASK_ROLE_DESCRIPTION, ext)
            shown == IF out.ret # None \/ out.escaped THEN out
                     ELSE [ret |-> None,
                           trace |-> Append(out.trace, StError("AgentCreationFailed")),
                           exc |-> out.exc, escaped |-> FALSE]
        IN
        /\ out.ret # None => nextId < MaxHandles
        /\ last' = Invocation("TaskCreateAgentButton", NoneStr, model_name_input,
                              TASK_ROLE, TASK_ROLE_DESCRIPTION, shown)
        /\ agent' = IF out.escaped THEN agent ELSE held("ChatAgent", out.ret)
        /\ nextId' = IF out.ret # None THEN nextId + 1 ELSE nextId
        /\ UNCHANGED <<other_vars, env, role_playing_session, role_playing_messages,
                       role_playing_conversation_history>>

\* RolePlaying(...), inside the handler's own try block
RolePlayingCall(model, ext) ==
    [op |-> "RolePlaying", model |-> model,
     returned |-> IF ext.role_playing = Ok
                  THEN [class |-> "RolePlaying", model |-> model] ELSE None]

\* Role Playing: "Start Role Playing Session", after the two checks on the
\* widgets: create_model_instance, then RolePlaying(...) in a try block of its own
start_role_playing(selected_provider, custom_model_name, ext) ==
    LET model == create_model_instance(selected_provider, custom_model_name, ext)
        call == RolePlayingCall(model.ret, ext)
    IN
    IF model.escaped THEN model
    ELSE IF model.ret = None
    THEN [ret |-> None, trace |-> Append(model.trace, StError("RolePlayingModelFailed")),
          exc |-> model.exc, escaped |-> FALSE]
    ELSE IF ext.role_playing.do = "raise"
    THEN [ret |-> None,
          trace |-> model.trace \o <<call, StErrorMsg("RolePlayingInitFailed",
                                                      ext.role_playing.msg)>>,
          exc |-> ext.role_playing, escaped |-> FALSE]
    ELSE [ret |-> call.returned, trace |-> Append(model.trace, call),
          exc |-> None, escaped |-> FALSE]

\* the except branch of that try block was taken
role_playing_raised(out) ==
    /\ out.trace # <<>>
    /\ out.trace[Len(out.trace)].op = "st.error"
    /\ out.trace[Len(out.trace)].kind = "RolePlayingInitFailed"

RolePlayingStartButton ==
    \E selected_provider \in available_providers, custom_model_name \in PageModelInputs,
       ext \in PageExtOutcomes :
        LET out == start_role_playing(selected_provider, custom_model_name, ext)
            started == out.ret # None
        IN
        IF selected_provider = NO_PROVIDER \/ ~truthy(strip(custom_model_name))
        THEN /\ last' = Invocation("RolePlayingStartButton", selected_provider,
                                   custom_model_name, "", "",
                                   returns(None, <<StError(IF selected_provider = NO_PROVIDER
                                                           THEN "NoProviderSelected"
                                                           ELSE "EmptyModel")>>))
             /\ UNCHANGED <<other_vars, env, session_vars>>
        ELSE /\ started => nextId < MaxHandles
             /\ last' = Invocation("RolePlayingStartButton", selected_provider,
                                   custom_model_name, "", "", out)
             /\ role_playing_session' =
                    IF started THEN held("RolePlaying", out.ret)
                    ELSE IF role_playing_raised(out) THEN None
                    ELSE role_playing_session
             /\ role_playing_messages' = IF started THEN <<>> ELSE role_playing_messages
             /\ role_playing_conversation_history' =
                    IF started THEN <<>> ELSE role_playing_conversation_history
             /\ nextId' = IF started THEN nextId + 1 ELSE nextId
             /\ UNCHANGED <<other_vars, env, agent>>

-----------------------------------------------------------------------------
(* The conversations and the task list of the pages, their save actions,   *)
(* and the analytics of the Visualization page that read the files back.   *)
(* A Python dict is a function from its keys; a list is a sequence.        *)

MaxMessages == 4
MaxSessionMessages == 2
MaxTasks == 2
MaxSessionTasks == 1
MaxClock == 1
MaxFiles == 2

\* what the user may type into a chat input or the task description field
USER_INPUT == "What is a list comprehension?"
RESPONSE_CONTENT == "A concise way to build a list."
TaskDescriptions == {"", "summarise the report", "translate the summary"}

\* the provider and model widgets as they stand while the user chats or saves
SELECTED_PROVIDER == "OpenAI"
CUSTOM_MODEL_NAME == "gpt-4.1-mini"
AI_ROLE_NAME == "Python Programmer"
USER_ROLE_NAME == "Stock Trader"
TASK_PROMPT == "Develop a trading bot for the stock market"
MODEL_NAME_INPUT == "gpt-3.5-turbo"

\* what agent.step / role_playing_session.step may do: answer, answer with
\* nothing usable, return nothing, or raise
StepOutcomes == {"msg", "no_msg", "none", "AttributeError", "Exception"}

\* what reading user_role_name / assistant_role_name of the RolePlaying object
\* may do: give the name, or raise because the object has no such attribute
AttributeOutcomes == {"ok", "AttributeError"}

\* an exception that no handler catches: the script run ends with it
Escaped(type) == [op |-> "uncaught", type |-> type]

\* what st.rerun() may do inside a handler: end the script run there, or
\* return (as it does when no script run context is attached)
RerunOutcomes == {"halts", "returns"}

\* d[key] = value
dict_set(d, key, value) ==
    [k \in DOMAIN d \cup {key} |-> IF k = key THEN value ELSE d[k]]

\* d.get(key, default)
dict_get(d, key, default) == IF key \in DOMAIN d THEN d[key] ELSE default

\* the most recent action of a page: what it showed and which file it wrote
PageAction(site, events) == Invocation(site, NoneStr, NoneStr, "", "", returns(None, events))

StWarning(kind) == [op |-> "st.warning", kind |-> kind, msg |-> ""]
FileWrite(path) == [op |-> "open", path |-> path, mode |-> "w"]

\* a session in which an agent and a role-playing session have been created
InitSession ==
    /\ env = [k \in ENV_KEYS |-> (* "sk-1" *) <<"s","k","-","1">>]
    /\ agent = [class |-> "ChatAgent", id |-> 1]
    /\ role_playing_session = [class |-> "RolePlaying", id |-> 2]
    /\ role_playing_messages = <<>>
    /\ role_playing_conversation_history = <<>>
    /\ nextId = 2
    /\ last = NoCall
    /\ messages = <<>>
    /\ tasks = <<>>
    /\ task_status = <<>>
    /\ task_outputs = <<>>
    /\ selected_provider_index = 0
    /\ DiskStart

\* datetime.now().strftime(TIMESTAMP_FORMAT): one timestamp per second
TIMESTAMP_FORMAT == "year month day _ hour minute second"
strftime(seconds) == <<TIMESTAMP_FORMAT, seconds>>

\* with open(filename, 'w') as f: json.dump(data, f): the file of that name
\* is created, or truncated and rewritten
write_json(fs, path, data) ==
    {f \in fs : f.path # path} \cup {[path |-> path, data |-> data]}

\* time passes
Tick ==
    /\ clock < MaxClock
    /\ clock' = clock + 1
    /\ last' = PageAction("Tick", <<>>)
    /\ UNCHANGED <<env, session_vars, messages, tasks, task_status, task_outputs,
                   files, dotenv, primary_camel_provider, selected_provider_index>>

-----------------------------------------------------------------------------
(* Chat Agents page *)

save_conversation(msgs, role, provider, model_name_val) ==
    LET timestamp == strftime(clock)
        filename == <<"conversation_history", "conversation_", timestamp>>
        conversation_data ==
            [timestamp |-> timestamp, role |-> role, provider |-> provider,
             model_name |-> model_name_val, messages |-> msgs]
    IN  [path |-> filename, files |-> write_json(files, filename, conversation_data)]

\* the message list after the user's input and the agent's step
chat_exchange_always_answers(msgs, step) ==
    msgs \o <<[role |-> "user", content |-> USER_INPUT],
              [role |-> "assistant", content |-> RESPONSE_CONTENT]>>
chat_exchange(msgs, step) ==
    LET user == [role |-> "user", content |-> USER_INPUT]
        assistant == [role |-> "assistant", content |-> RESPONSE_CONTENT]
    IN  IF step = "msg" THEN msgs \o <<user, assistant>> ELSE Append(msgs, user)

ChatInput ==
    /\ agent # None
    /\ Len(messages) + 2 <= MaxMessages
    /\ \E step \in StepOutcomes :
        /\ messages' = chat_exchange(messages, step)
        /\ last' = PageAction("ChatInput",
                              IF step = "msg" THEN <<>>
                              ELSE IF step \in {"no_msg", "none"}
                              THEN <<StError("NoValidResponse")>>
                              ELSE <<StError("StepFailed")>>)
    /\ UNCHANGED <<env, session_vars, tasks, task_status, task_outputs, clock, files,
                   dotenv, primary_camel_provider, selected_provider_index>>

ClearChatButton ==
    /\ messages' = <<>>
    /\ last' = PageAction("ClearChatButton", <<>>)
    /\ UNCHANGED <<env, session_vars, tasks, task_status, task_outputs, clock, files,
                   dotenv, primary_camel_provider, selected_provider_index>>

SaveChatButton ==
    LET saved == save_conversation(messages, CHAT_ROLE, SELECTED_PROVIDER, CUSTOM_MODEL_NAME) IN
    /\ IF messages # <<>>
       THEN /\ Cardinality(saved.files) <= MaxFiles
            /\ files' = saved.files
            /\ last' = PageAction("SaveChatButton", <<FileWrite(saved.path)>>)
       ELSE /\ files' = files
            /\ last' = PageAction("SaveChatButton", <<StWarning("NothingToSave")>>)
    /\ UNCHANGED <<env, session_vars, messages, tasks, task_status, task_outputs, clock,
                   dotenv, primary_camel_provider, selected_provider_index>>

-----------------------------------------------------------------------------
(* Role Playing page *)

save_conversation_role_playing(msgs, ai_role, user_role, task_prompt, provider, model_name_val) ==
    LET timestamp == strftime(clock)
        filename == <<"role_play_history", "role_playing_", timestamp>>
        conversation_data ==
            [timestamp |-> timestamp, ai_role |-> ai_role, user_role |-> user_role,
             task_prompt |-> task_prompt, provider |-> provider,
             model_name |-> model_name_val, messages |-> msgs]
    IN  [path |-> filename, files |-> write_json(files, filename, conversation_data)]

RolePlayingInput ==
    /\ role_playing_session # None
    /\ Len(role_playing_messages) + 2 <= MaxMessages
    /\ \E step \in StepOutcomes, names \in AttributeOutcomes :
        LET answered == step = "msg"
            \* unpacking a step that returned nothing raises as well
            raised == step \in {"none", "AttributeError", "Exception"}
            user == [role |-> "user", content |-> USER_INPUT]
            assistant == [role |-> "assistant", content |-> RESPONSE_CONTENT]
        IN
        IF names = "AttributeError"
        THEN \* role_playing_session.user_role_name raises, outside the try
             \* block: the script run ends after the first append
             /\ role_playing_messages' = Append(role_playing_messages, user)
             /\ role_playing_conversation_history' = role_playing_conversation_history
             /\ last' = PageAction("RolePlayingInput", <<Escaped("AttributeError")>>)
        ELSE /\ role_playing_messages' =
                   Append(role_playing_messages, user)
                   \o (IF answered THEN <<assistant>> ELSE <<>>)
             /\ role_playing_conversation_history' =
                   Append(role_playing_conversation_history,
                          [role |-> USER_ROLE_NAME, content |-> USER_INPUT])
                   \o (IF answered
                       THEN <<[role |-> AI_ROLE_NAME, content |-> RESPONSE_CONTENT]>>
                       ELSE <<>>)
             /\ last' = PageAction("RolePlayingInput",
                                   IF answered THEN <<>>
                                   ELSE IF raised THEN <<StError("StepFailed")>>
                                   ELSE <<StWarning("NoResponse")>>)
    /\ UNCHANGED <<env, agent, role_playing_session, nextId, messages, tasks, task_status,
                   task_outputs, clock, files, dotenv, primary_camel_provider,
                   selected_provider_index>>

RolePlayingClearButton ==
    /\ role_playing_messages' = <<>>
    /\ role_playing_conversation_history' = <<>>
    /\ last' = PageAction("RolePlayingClearButton", <<>>)
    /\ UNCHANGED <<env, agent, role_playing_session, nextId, messages, tasks, task_status,
                   task_outputs, clock, files, dotenv, primary_camel_provider,
                   selected_provider_index>>

RolePlayingSaveButton ==
    LET saved == save_conversation_role_playing(role_playing_conversation_history,
                                                AI_ROLE_NAME, USER_ROLE_NAME, TASK_PROMPT,
                                                SELECTED_PROVIDER, CUSTOM_MODEL_NAME)
    IN
    /\ IF role_playing_conversation_history # <<>>
       THEN /\ Cardinality(saved.files) <= MaxFiles
            /\ files' = saved.files
            /\ last' = PageAction("RolePlayingSaveButton", <<FileWrite(saved.path)>>)
       ELSE /\ files' = files
            /\ last' = PageAction("RolePlayingSaveButton", <<StWarning("NothingToSave")>>)
    /\ UNCHANGED <<env, session_vars, messages, tasks, task_status, task_outputs, clock,
                   dotenv, primary_camel_provider, selected_provider_index>>

-----------------------------------------------------------------------------
(* Task Automation page *)

save_task_results(task_list, outputs, status, model_name_input_val) ==
    LET timestamp == strftime(clock)
        filename == <<"task_history", "tasks_", timestamp>>
        task_data ==
            [timestamp |-> timestamp, model_name_input |-> model_name_input_val,
             tasks |-> task_list, outputs |-> outputs, status |-> status]
    IN  [path |-> filename, files |-> write_json(files, filename, task_data)]

AddTaskButton ==
    /\ agent # None
    /\ \E new_task_description \in TaskDescriptions :
        IF new_task_description # ""
        THEN /\ Len(tasks) < MaxTasks
             /\ tasks' = Append(tasks, new_task_description)
             /\ task_status' = dict_set(task_status, new_task_description, "pending")
             /\ last' = PageAction("AddTaskButton", <<>>)
        ELSE /\ UNCHANGED <<tasks, task_status>>
             /\ last' = PageAction("AddTaskButton", <<StError("EmptyTask")>>)
    /\ UNCHANGED <<env, session_vars, messages, task_outputs, clock, files,
                   dotenv, primary_camel_provider, selected_provider_index>>

\* st.session_state.agent.step(user_message) for a task
AgentStep(task_item) == [op |-> "agent.step", task |-> task_item]

\* the status and the output the Execute handler leaves for what step did
execute_result(step) ==
    IF step = "msg" THEN [status |-> "completed", output |-> RESPONSE_CONTENT]
    ELSE IF step = "no_msg"
    THEN [status |-> "completed_no_output",
          output |-> "Agent processed task but returned no message content."]
    ELSE IF step = "none"
    THEN [status |-> "error_no_response", output |-> "Agent did not provide a response."]
    ELSE IF step = "AttributeError"
    THEN [status |-> "error_attribute", output |-> "Method not found on agent"]
    ELSE [status |-> "error_execution", output |-> "Error executing task"]

ExecuteTaskButton ==
    /\ agent # None
    /\ \E i \in DOMAIN tasks, rerun \in RerunOutcomes, step \in StepOutcomes :
        LET task_item == tasks[i]
            result == execute_result(step)
        IN
        /\ dict_get(task_status, task_item, "pending") = "pending"
        /\ IF rerun = "halts"
           THEN /\ task_status' = dict_set(task_status, task_item, "in_progress")
                /\ task_outputs' = task_outputs
                /\ last' = PageAction("ExecuteTaskButton", <<>>)
           ELSE /\ task_status' = dict_set(task_status, task_item, result.status)
                /\ task_outputs' = dict_set(task_outputs, task_item, result.output)
                /\ last' = PageAction("ExecuteTaskButton",
                                      <<AgentStep(task_item)>>
                                      \o (IF step \in {"AttributeError", "Exception"}
                                          THEN <<StError("StepFailed")>> ELSE <<>>))
    /\ UNCHANGED <<env, session_vars, messages, tasks, clock, files,
                   dotenv, primary_camel_provider, selected_provider_index>>

ClearAllButton ==
    /\ tasks' = <<>>
    /\ task_outputs' = <<>>
    /\ task_status' = <<>>
    /\ last' = PageAction("ClearAllButton", <<>>)
    /\ UNCHANGED <<env, session_vars, messages, clock, files,
                   dotenv, primary_camel_provider, selected_provider_index>>

SaveResultsButton ==
    LET saved == save_task_results(tasks, task_outputs, task_status, MODEL_NAME_INPUT) IN
    /\ IF tasks # <<>>
       THEN /\ Cardinality(saved.files) <= MaxFiles
            /\ files' = saved.files
            /\ last' = PageAction("SaveResultsButton", <<FileWrite(saved.path)>>)
       ELSE /\ files' = files
            /\ last' = PageAction("SaveResultsButton", <<StWarning("NothingToSave")>>)
    /\ UNCHANGED <<env, session_vars, messages, tasks, task_status, task_outputs, clock,
                   dotenv, primary_camel_provider, selected_provider_index>>

\* the Task Statistics of the page, over st.session_state.task_status
page_task_statistics(status) ==
    [total_tasks |-> Len(tasks),
     completed_tasks |-> Cardinality({k \in DOMAIN status : status[k] = "completed"}),
     failed_tasks |-> Cardinality({k \in DOMAIN status :
                                     status[k] \notin {"pending", "in_progress", "completed"}}),
     pending_tasks |-> Cardinality({k \in DOMAIN status : status[k] = "pending"}),
     in_progress_tasks |-> Cardinality({k \in DOMAIN status : status[k] = "in_progress"})]

-----------------------------------------------------------------------------
(* Visualization page: the rows the analytics compute, one per record; the  *)
(* average content length of a conversation is left out                    *)

\* json.load of every file of a directory
load_history(dir) == {f.data : f \in {g \in files : g.path[1] = dir}}

analyze_conversation_stats(conversations) ==
    [i \in DOMAIN conversations |->
        [timestamp |-> dict_get(conversations[i], "timestamp", NoneStr),
         model |-> dict_get(conversations[i], "model", NoneStr),
         messages |-> Len(dict_get(conversations[i], "messages", <<>>))]]

analyze_role_play_stats(sessions) ==
    [i \in DOMAIN sessions |->
        LET conversation == dict_get(sessions[i], "conversation", <<>>) IN
        [timestamp |-> dict_get(sessions[i], "timestamp", NoneStr),
         agent1_role |-> dict_get(sessions[i], "agent1_role", NoneStr),
         agent2_role |-> dict_get(sessions[i], "agent2_role", NoneStr),
         agent1_messages |->
             Cardinality({j \in DOMAIN conversation :
                             dict_get(conversation[j], "role", NoneStr) = "agent1"}),
         agent2_messages |->
             Cardinality({j \in DOMAIN conversation :
                             dict_get(conversation[j], "role", NoneStr) = "agent2"}),
         total_messages |-> Len(conversation)]]

analyze_task_stats(task_sets) ==
    [i \in DOMAIN task_sets |->
        LET status == dict_get(task_sets[i], "status", <<>>) IN
        [timestamp |-> dict_get(task_sets[i], "timestamp", NoneStr),
         total_tasks |-> Len(dict_get(task_sets[i], "tasks", <<>>)),
         completed_tasks |-> Cardinality({k \in DOMAIN status : status[k] = "completed"}),
         failed_tasks |-> Cardinality({k \in DOMAIN status : status[k] = "failed"})]]

-----------------------------------------------------------------------------
(* Home page: the API key management of the sidebar.  The .env file is a   *)
(* sequence of KEY=text lines; os.environ is env for the provider keys and *)
(* primary_camel_provider for PRIMARY_CAMEL_PROVIDER.  Values hold neither *)
(* quotes nor backslashes.                                                 *)

\* the upper-case letter of each lower-case letter
UPPER_OF == [c \in {LOWERCASE[i] : i \in DOMAIN LOWERCASE} |->
                UPPERCASE[CHOOSE i \in DOMAIN LOWERCASE : LOWERCASE[i] = c]]

upper_char(c) == IF c \in DOMAIN UPPER_OF THEN UPPER_OF[c] ELSE c

is_cased(c) == c \in DOMAIN UPPER_OF \/ c \in DOMAIN LOWER_OF

\* str.upper
upper(s) == [i \in 1..Len(s) |-> upper_char(s[i])]

\* str.title: a letter that follows no letter is upper-cased, every other
\* letter is lower-cased
title(s) ==
    [i \in 1..Len(s) |->
        IF i = 1 \/ ~is_cased(s[i - 1]) THEN upper_char(s[i]) ELSE lower_char(s[i])]

\* str.startswith
startswith_never(s, prefix) == FALSE
startswith(s, prefix) ==
    Len(prefix) <= Len(s) /\ SubSeq(s, 1, Len(prefix)) = prefix

\* str.endswith
endswith(s, suffix) ==
    Len(suffix) <= Len(s) /\ SubSeq(s, Len(s) - Len(suffix) + 1, Len(s)) = suffix

\* str.replace(old, new) for a non-empty old: the occurrences are replaced
\* from the left, without overlap
RECURSIVE replace(_, _, _)
replace(s, old, new) ==
    IF s = <<>> THEN <<>>
    ELSE IF startswith(s, old)
    THEN new \o replace(SubSeq(s, Len(old) + 1, Len(s)), old, new)
    ELSE <<s[1]>> \o replace(Tail(s), old, new)

\* str.rstrip(); line.strip() of a KEY=text line leaves the key and strips
\* the end of the text
RECURSIVE rstrip(_)
rstrip(s) ==
    IF s # <<>> /\ s[Len(s)] \in WHITESPACE THEN rstrip(SubSeq(s, 1, Len(s) - 1)) ELSE s

\* providers and provider_names, in the order of the dict
providers ==
    << [name |-> (* "OpenAI" *) <<"O","p","e","n","A","I">>, env_var |-> "OPENAI_API_KEY"],
       [name |-> (* "Anthropic" *) <<"A","n","t","h","r","o","p","i","c">>, env_var |-> "ANTHROPIC_API_KEY"],
       [name |-> (* "Gemini" *) <<"G","e","m","i","n","i">>, env_var |-> "GEMINI_API_KEY"],
       [name |-> (* "OpenRouter" *) <<"O","p","e","n","R","o","u","t","e","r">>, env_var |-> "OPENROUTER_API_KEY"] >>

provider_names == [i \in DOMAIN providers |-> providers[i].name]

\* list.index, counted from 0; -1 stands for ValueError
list_index(list, x) ==
    IF \E i \in DOMAIN list : list[i] = x
    THEN (CHOOSE i \in DOMAIN list : list[i] = x /\ \A j \in 1..(i - 1) : list[j] # x) - 1
    ELSE -1

get_primary_provider_index(primary_provider_name) ==
    IF truthy(primary_provider_name)
    THEN LET candidate ==
                 replace(replace(title(replace(replace(primary_provider_name,
                                                       (* "_API_KEY" *) <<"_","A","P","I","_","K","E","Y">>, <<>>),
                                               (* "_" *) <<"_">>, (* " " *) <<" ">>)),
                                 (* "Ai" *) <<"A","i">>, (* "AI" *) <<"A","I">>),
                         (* "Api" *) <<"A","p","i">>, (* "API" *) <<"A","P","I">>)
             matching == {i \in DOMAIN provider_names :
                             startswith(primary_provider_name, upper(provider_names[i]))}
         IN  IF list_index(provider_names, candidate) # -1
             THEN list_index(provider_names, candidate)
             ELSE IF matching # {}
             THEN (CHOOSE i \in matching : \A j \in matching : i <= j) - 1
             ELSE 0
    ELSE 0

DOUBLE_QUOTE == <<"\"">>
SINGLE_QUOTE == <<"'">>

\* what the user may type into the key field
KeyInputs == { <<>>, (* "sk-1" *) <<"s","k","-","1">>, (* "sk-2" *) <<"s","k","-","2">> }

\* the .env files the application may start with
StartingDotenv ==
    { <<>>,
      << [key |-> "DEBUG", text |-> (* "1 " *) <<"1"," ">>],
         [key |-> "LOG_LEVEL", text |-> (* "info # verbosity" *) <<"i","n","f","o"," ","#"," ","v","e","r","b","o","s","i","t","y">>] >>,
      << [key |-> "OPENAI_API_KEY", text |-> (* "'sk-0'" *) <<"'","s","k","-","0","'">>],
         [key |-> "LOG_LEVEL", text |-> DOUBLE_QUOTE \o (* "info" *) <<"i","n","f","o">> \o DOUBLE_QUOTE] >> }

\* an insertion-ordered dict as a sequence of key/value pairs
od_has(d, key) == \E i \in DOMAIN d : d[i].key = key
od_get(d, key) == d[CHOOSE i \in DOMAIN d : d[i].key = key].value
od_set(d, key, value) ==
    IF od_has(d, key)
    THEN [i \in DOMAIN d |-> IF d[i].key = key THEN [key |-> key, value |-> value] ELSE d[i]]
    ELSE Append(d, [key |-> key, value |-> value])
od_del(d, key) == SelectSeq(d, LAMBDA e : e.key # key)

\* the value of a line's text as the Save Key handler reads it
unquote(value) ==
    IF startswith(value, DOUBLE_QUOTE) /\ endswith(value, DOUBLE_QUOTE)
    THEN SubSeq(value, 2, Len(value) - 1)
    ELSE IF startswith(value, SINGLE_QUOTE) /\ endswith(value, SINGLE_QUOTE)
    THEN SubSeq(value, 2, Len(value) - 1)
    ELSE value

RECURSIVE read_env(_)
read_env(lines) ==
    IF lines = <<>> THEN <<>>
    ELSE LET line == lines[Len(lines)] IN
         od_set(read_env(SubSeq(lines, 1, Len(lines) - 1)),
                line.key, unquote(rstrip(line.text)))

\* f'{key}="{value}"\n'
env_line(d, key) == [key |-> key, text |-> DOUBLE_QUOTE \o od_get(d, key) \o DOUBLE_QUOTE]

OTHER_KNOWN_VARS == {providers[i].env_var : i \in DOMAIN providers} \cup {"PRIMARY_CAMEL_PROVIDER"}

\* the content the Save Key handler writes: the primary provider, the
\* provider keys in the order of providers, then every other key
env_content(d) ==
    (IF od_has(d, "PRIMARY_CAMEL_PROVIDER") THEN <<env_line(d, "PRIMARY_CAMEL_PROVIDER")>>
     ELSE <<>>)
    \o [i \in DOMAIN SelectSeq(providers, LAMBDA p : od_has(d, p.env_var)) |->
           env_line(d, SelectSeq(providers, LAMBDA p : od_has(d, p.env_var))[i].env_var)]
    \o [i \in DOMAIN SelectSeq(d, LAMBDA e : e.key \notin OTHER_KNOWN_VARS) |->
           env_line(d, SelectSeq(d, LAMBDA e : e.key \notin OTHER_KNOWN_VARS)[i].key)]

\* an unquoted value ends where white space followed by # begins a comment
cut_comment(s) ==
    LET starts == {i \in DOMAIN s :
                      /\ s[i] \in WHITESPACE
                      /\ \E j \in i..(Len(s) - 1) :
                            /\ \A k \in i..j : s[k] \in WHITESPACE
                            /\ s[j + 1] = "#"}
    IN  IF starts = {} THEN s
        ELSE SubSeq(s, 1, (CHOOSE i \in starts : \A j \in starts : i <= j) - 1)

\* the value python-dotenv gives a line's text: the inside of a quoted value,
\* or an unquoted value without its comment and the white space around it
dotenv_value(text) ==
    LET value == strip(text) IN
    IF unquote(value) # value THEN unquote(value) ELSE rstrip(cut_comment(value))

\* load_dotenv(override=True): every variable of the file is set in
\* os.environ; a variable the file does not hold keeps its value
load_dotenv_override(lines, name, current) ==
    IF \E i \in DOMAIN lines : lines[i].key = name
    THEN dotenv_value(lines[CHOOSE i \in DOMAIN lines :
                                /\ lines[i].key = name
                                /\ \A j \in (i + 1)..Len(lines) : lines[j].key # name].text)
    ELSE current

InitHome ==
    /\ SessionStart
    /\ last = NoCall
    /\ clock = 0
    /\ files = {}
    /\ dotenv \in StartingDotenv
    \* load_dotenv() when the application starts
    /\ env = [k \in ENV_KEYS |-> load_dotenv_override(dotenv, k, NoneStr)]
    /\ primary_camel_provider = load_dotenv_override(dotenv, "PRIMARY_CAMEL_PROVIDER", NoneStr)
    /\ selected_provider_index = get_primary_provider_index(primary_camel_provider)

\* a new browser session of the running application
NewSession ==
    /\ selected_provider_index' = get_primary_provider_index(primary_camel_provider)
    /\ last' = PageAction("NewSession", <<>>)
    /\ UNCHANGED <<env, session_vars, messages, tasks, task_status, task_outputs, clock,
                   files, dotenv, primary_camel_provider>>

\* the user picks a provider in the selectbox
SelectProvider ==
    /\ \E i \in DOMAIN provider_names :
        /\ selected_provider_index' = list_index(provider_names, provider_names[i])
        /\ last' = Invocation("SelectProvider", provider_names[i], NoneStr, "", "",
                              returns(None, <<>>))
    /\ UNCHANGED <<env, session_vars, messages, tasks, task_status, task_outputs, clock,
                   files, dotenv, primary_camel_provider>>

SaveKeyButton ==
    /\ \E current_api_key \in KeyInputs :
        LET selected_provider_name == provider_names[selected_provider_index + 1]
            selected_env_var_name == providers[selected_provider_index + 1].env_var
            existing_env == read_env(dotenv)
            updated == IF truthy(current_api_key)
                       THEN od_set(existing_env, selected_env_var_name, current_api_key)
                       ELSE IF od_has(existing_env, selected_env_var_name)
                       THEN od_del(existing_env, selected_env_var_name)
                       ELSE existing_env
            with_primary == od_set(updated, "PRIMARY_CAMEL_PROVIDER",
                                   replace(upper(selected_provider_name), (* " " *) <<" ">>, (* "_" *) <<"_">>))
            written == env_content(with_primary)
        IN
        /\ dotenv' = written
        /\ env' = [k \in ENV_KEYS |-> load_dotenv_override(written, k, env[k])]
        /\ primary_camel_provider' =
               load_dotenv_override(written, "PRIMARY_CAMEL_PROVIDER", primary_camel_provider)
        /\ selected_provider_index' = list_index(provider_names, selected_provider_name)
        /\ last' = Invocation("SaveKeyButton", selected_provider_name, current_api_key, "", "",
                              returns(None, <<FileWrite(<<".env">>)>>))
    /\ UNCHANGED <<session_vars, messages, tasks, task_status, task_outputs, clock, files>>

-----------------------------------------------------------------------------
(* Properties.  They read the most recent invocation: its arguments, the   *)
(* events it performed in order, what it returned, and the session.        *)

out == last.out
trace == last.out.trace

FactoryCalls == {i \in DOMAIN trace : trace[i].op = "ModelFactory.create"}
AgentCalls == {i \in DOMAIN trace : trace[i].op = "ChatAgent"}
EnvReads == {i \in DOMAIN trace : trace[i].op = "os.getenv"}
Errors == {i \in DOMAIN trace : trace[i].op \in {"st.error", "print"}}

\* the invocation ended by reporting this error and returning None
FailedWith(kind) ==
    /\ out.ret = None
    /\ trace # <<>>
    /\ Len(trace) \in Errors
    /\ trace[Len(trace)].kind = kind

\* a credential value that is unset or empty, said without truthy
Unset(value) == value = NoneStr \/ value = <<>>

\* a string of whitespace only (the empty string included), said without strip
Blank(s) == \A i \in DOMAIN s : s[i] \in WHITESPACE

\* two strings that differ at most in the case of their letters, said without lower
SameLetter(a, b) ==
    a = b \/ \E k \in DOMAIN UPPERCASE : {a, b} = {UPPERCASE[k], LOWERCASE[k]}
EqualIgnoringCase(s, t) ==
    Len(s) = Len(t) /\ \A i \in DOMAIN s : SameLetter(s[i], t[i])

\* the four providers as the specification lists them: label, credential
\* variable, platform
KNOWN_PROVIDERS ==
    { [label |-> (* "OpenAI" *) <<"O","p","e","n","A","I">>, key |-> "OPENAI_API_KEY", platform |-> "OPENAI"],
      [label |-> (* "Anthropic" *) <<"A","n","t","h","r","o","p","i","c">>, key |-> "ANTHROPIC_API_KEY", platform |-> "ANTHROPIC"],
      [label |-> (* "Gemini" *) <<"G","e","m","i","n","i">>, key |-> "GEMINI_API_KEY", platform |-> "GEMINI"],
      [label |-> (* "OpenRouter" *) <<"O","p","e","n","R","o","u","t","e","r">>, key |-> "OPENROUTER_API_KEY", platform |-> "OPENROUTER"] }

Named(s) == {p \in KNOWN_PROVIDERS : EqualIgnoringCase(s, p.label)}

\* the part of s before its first colon and the part after it
FirstColon(s) == CHOOSE i \in DOMAIN s : s[i] = ":" /\ \A j \in 1..(i - 1) : s[j] # ":"
BeforeColon(s) == SubSeq(s, 1, FirstColon(s) - 1)
AfterColon(s) == SubSeq(s, FirstColon(s) + 1, Len(s))

\* the names the chains of a platform test for, and the short names of the
\* Task Automation page
AliasNames(platform) ==
    UNION {model_chain(platform)[i].names : i \in DOMAIN model_chain(platform)}
ShortNames == UNION {SHORT_NAME_CHAIN[i].names : i \in DOMAIN SHORT_NAME_CHAIN}
InAliasTable(names, model_name) == \E n \in names : EqualIgnoringCase(model_name, n)

DispatchSites == {"create_agent", "create_model_instance"}
TaskSite == "create_agent_for_task_automation"
ButtonSites == {"ChatCreateAgentButton", "TaskCreateAgentButton", "RolePlayingStartButton"}

-----------------------------------------------------------------------------
\* C1: a provisioning button whose attempt fails (it ends with no new handle)
\* leaves the agent handle and the role-playing session handle of the UI
\* session as they were before the button was pressed.
C1_FailedAttemptKeepsHandle ==
    [][(last'.site \in ButtonSites /\ last'.out.ret = None)
          => (agent' = agent /\ role_playing_session' = role_playing_session)]_vars

-----------------------------------------------------------------------------
\* C2: in the four provisioning functions an unset or empty credential ends the
\* invocation with None before any factory call or agent construction, every
\* factory call is given a non-empty credential, and every agent that is
\* constructed is constructed over a model made with a non-empty credential.
C2_NoCallWithoutCredential ==
    /\ \A i \in EnvReads : Unset(trace[i].value) =>
          /\ out.ret = None
          /\ FactoryCalls = {}
          /\ AgentCalls = {}
    /\ \A i \in FactoryCalls : ~Unset(trace[i].api_key)
    /\ \A i \in AgentCalls :
          \E j \in FactoryCalls : j < i /\ ~Unset(trace[j].api_key)
                                  /\ (trace[j].returned # None
                                        => trace[i].model = trace[j].returned)

\* create_agent read a credential that is set to the empty string and gave up
C2_Witness ==
    /\ last.site = "create_agent"
    /\ \E i \in EnvReads : trace[i].value = <<>>
    /\ FailedWith("MissingCredential")

-----------------------------------------------------------------------------
\* C3: whenever a capability raises during one of the four provisioning
\* functions, the exception does not reach the caller, the function returns
\* None, and it reports exactly one error, which carries the exception's message.
C3_ExceptionCaughtAndReported ==
    /\ ~out.escaped
    /\ out.exc # None =>
          /\ out.ret = None
          /\ Cardinality(Errors) = 1
          /\ \A i \in Errors : trace[i].msg = out.exc.msg /\ i = Len(trace)

\* the agent constructor raised a RuntimeError in create_agent_for_task_automation
C3_Witness ==
    /\ last.site = TaskSite
    /\ out.exc # None
    /\ out.exc.type = "RuntimeError"
    /\ AgentCalls # {}
    /\ FailedWith("UnexpectedError")

-----------------------------------------------------------------------------
\* C4: in create_agent and create_model_instance a model name "prefix:model"
\* whose prefix names a known provider resolves to that provider, whatever
\* provider name was supplied: the credential read is the prefix's, and a
\* factory call is given the prefix's platform and the part after the colon.
C4_PrefixOverridesProvider ==
    (/\ last.site \in DispatchSites
     /\ last.provider_name # <<>>
     /\ has_colon(strip(last.model_name))
     /\ Named(BeforeColon(strip(last.model_name))) # {}
     /\ ~Blank(AfterColon(strip(last.model_name))))
    => \A p \in Named(BeforeColon(strip(last.model_name))) :
          /\ EnvReads # {}
          /\ \A i \in EnvReads : trace[i].key = p.key
          /\ \A i \in FactoryCalls :
                /\ trace[i].model_platform = p.platform
                /\ trace[i].model_type = AfterColon(strip(last.model_name))

-----------------------------------------------------------------------------
\* C5 as stated: at the three call sites a non-empty model name that is not in
\* the alias table is never rejected for its name: when the provider's
\* credential is set and no capability raises, the factory is called with the
\* trimmed name as a raw string.
C5_UnknownNamePassesThroughEverywhere ==
    /\ (/\ last.site \in DispatchSites
        /\ Named(last.provider_name) # {}
        /\ ~Blank(last.model_name)
        /\ \A p \in Named(last.provider_name) :
              ~InAliasTable(AliasNames(p.platform), strip(last.model_name))
        /\ out.exc = None
        /\ \A i \in EnvReads : ~Unset(trace[i].value))
       => \E i \in FactoryCalls : trace[i].model_type = strip(last.model_name)
    /\ (/\ last.site = TaskSite
        /\ ~Blank(last.model_name)
        /\ ~has_colon(strip(last.model_name))
        /\ ~InAliasTable(ShortNames, strip(last.model_name)))
       => ~FailedWith("UnknownModel")

\* C5 amended: create_agent and create_model_instance hand a name that is not
\* in the provider's alias table to the factory unchanged (trimmed) whenever
\* the credential is set and no capability raises, and no factory call is
\* given anything else; create_agent_for_task_automation hands the part after
\* a known provider prefix to the factory unchanged, but rejects a name that
\* has no prefix and is not one of its short names with the unknown-model
\* error, without a credential read or a factory call.
C5_UnknownNamePassesThroughWithProvider ==
    /\ (/\ last.site \in DispatchSites
        /\ Named(last.provider_name) # {}
        /\ ~Blank(last.model_name)
        /\ \A p \in Named(last.provider_name) :
              ~InAliasTable(AliasNames(p.platform), strip(last.model_name)))
       => /\ \A i \in FactoryCalls : trace[i].model_type = strip(last.model_name)
          /\ (out.exc = None /\ \A i \in EnvReads : ~Unset(trace[i].value))
                => FactoryCalls # {}
    /\ (/\ last.site = TaskSite
        /\ ~Blank(last.model_name)
        /\ has_colon(strip(last.model_name))
        /\ Named(BeforeColon(strip(last.model_name))) # {}
        /\ AfterColon(strip(last.model_name)) # <<>>)
       => /\ \A i \in FactoryCalls :
                trace[i].model_type = AfterColon(strip(last.model_name))
          /\ (out.exc = None /\ \A i \in EnvReads : ~Unset(trace[i].value))
                => FactoryCalls # {}
    /\ (/\ last.site = TaskSite
        /\ ~Blank(last.model_name)
        /\ ~has_colon(strip(last.model_name))
        /\ ~InAliasTable(ShortNames, strip(last.model_name)))
       => /\ FailedWith("UnknownModel")
          /\ EnvReads = {}
          /\ FactoryCalls = {}

\* create_agent handed "My-Model", which no chain tests for, to the factory as typed
C5_Witness ==
    /\ last.site = "create_agent"
    /\ last.model_name = (* "My-Model" *) <<"M","y","-","M","o","d","e","l">>
    /\ \E i \in FactoryCalls : trace[i].model_type = (* "My-Model" *) <<"M","y","-","M","o","d","e","l">>
    /\ out.ret # None

-----------------------------------------------------------------------------
\* C6: with an empty provider name, or with a model name that is empty or
\* whitespace only, create_agent, create_model_instance and
\* create_agent_for_task_automation report the empty-provider or empty-model
\* error, return None, and do nothing else: no credential read, no factory
\* call, no agent construction.
C6_EmptyInputsRejectedFirst ==
    /\ (last.site \in DispatchSites /\ last.provider_name = <<>>)
          => out.ret = None /\ trace = <<StError("EmptyProvider")>>
    /\ (last.site \in DispatchSites /\ last.provider_name # <<>> /\ Blank(last.model_name))
          => out.ret = None /\ trace = <<StError("EmptyModel")>>
    /\ (last.site = TaskSite /\ Blank(last.model_name))
          => out.ret = None /\ trace = <<StError("EmptyModel")>>

\* create_model_instance was given a known provider and a model name of two spaces
C6_Witness ==
    /\ last.site = "create_model_instance"
    /\ last.provider_name = (* "OpenAI" *) <<"O","p","e","n","A","I">>
    /\ last.model_name = (* "  " *) <<" "," ">>
    /\ FailedWith("EmptyModel")

-----------------------------------------------------------------------------
-----------------------------------------------------------------------------
\* C8: given a model name that is not blank, create_agent and
\* create_model_instance read, for a provider name that is one of the four
\* labels in any letter case, that provider's credential variable first and no
\* other, and call the factory only with that provider's platform; for any
\* other non-empty provider name they report the invalid-provider error and
\* return None with no credential read and no factory call.
C8_ProviderLookupIgnoresCase ==
    (/\ last.site \in DispatchSites
     /\ last.provider_name # <<>>
     /\ ~Blank(last.model_name))
    => /\ \A p \in Named(last.provider_name) :
             /\ trace # <<>>
             /\ trace[1] = [op |-> "os.getenv", key |-> p.key, value |-> env[p.key]]
             /\ \A i \in EnvReads : trace[i].key = p.key
             /\ \A i \in FactoryCalls : trace[i].model_platform = p.platform
       /\ Named(last.provider_name) = {}
             => out.ret = None /\ trace = <<StError("InvalidProvider")>>

\* create_model_instance for "gEMINI" went as far as a factory call on the
\* Gemini platform
C8_Witness ==
    /\ last.site = "create_model_instance"
    /\ last.provider_name = (* "gEMINI" *) <<"g","E","M","I","N","I">>
    /\ \E i \in FactoryCalls : trace[i].model_platform = "GEMINI"
    /\ out.ret # None

-----------------------------------------------------------------------------
\* C9: in create_agent and create_agent_for_task_automation every call of the
\* agent constructor comes after a factory call of the same invocation that
\* returned a handle, is given that handle, and is given a system message
\* composed of "You are a <role>. <role description>"; when the factory
\* returns nothing the function reports the model-creation error and returns
\* None without calling the agent constructor.
C9_AgentBuiltOnlyOverReturnedModel ==
    (last.site \in {"create_agent", TaskSite})
    => /\ \A i \in AgentCalls :
             /\ \E j \in FactoryCalls :
                   j < i /\ trace[j].returned # None /\ trace[i].model = trace[j].returned
             /\ last.site = "create_agent" =>
                   trace[i].system_message =
                       [class |-> "BaseMessage", role_name |-> last.role,
                        content |-> <<"You are a ", last.role, ". ", last.role_description>>]
             /\ last.site = TaskSite =>
                   trace[i].system_message =
                       <<"You are a ", last.role, ". ", last.role_description>>
       /\ \A j \in FactoryCalls :
             (trace[j].returned = None /\ out.exc = None)
             => AgentCalls = {} /\ FailedWith("ModelCreationFailed")

\* the factory returned nothing to create_agent_for_task_automation
C9_Witness ==
    /\ last.site = TaskSite
    /\ \E j \in FactoryCalls : trace[j].returned = None
    /\ out.exc = None
    /\ FailedWith("ModelCreationFailed")

-----------------------------------------------------------------------------
\* C10: in create_agent_for_task_automation an input "prefix:model" with a
\* non-empty model part whose prefix is, in every letter case, none of openai,
\* anthropic, gemini, openrouter ends in the unknown-provider-prefix error and
\* does nothing else: no credential read, no factory call, no agent construction.
C10_UnknownPrefixRejected ==
    (/\ last.site = TaskSite
     /\ has_colon(strip(last.model_name))
     /\ AfterColon(strip(last.model_name)) # <<>>
     /\ Named(BeforeColon(strip(last.model_name))) = {})
    => out.ret = None /\ trace = <<StError("UnknownProviderPrefix")>>

\* the input "cohere:command-r" while every credential is set
C10_Witness ==
    /\ last.site = TaskSite
    /\ last.model_name = (* "cohere:command-r" *) <<"c","o","h","e","r","e",":","c","o","m","m","a","n","d","-","r">>
    /\ \A k \in ENV_KEYS : env[k] = (* "sk-1" *) <<"s","k","-","1">>
    /\ FailedWith("UnknownProviderPrefix")

-----------------------------------------------------------------------------
\* the options block of a factory call has this entry
HasOption(call, name, value) ==
    /\ name \in DOMAIN call.model_config_dict
    /\ call.model_config_dict[name] = value

\* C11: every factory call made by create_agent, create_model_instance or
\* create_agent_for_task_automation carries an options block that holds both
\* temperature 0.7 and max_tokens 4096.
C11_EveryCallCarriesBothOptions ==
    (last.site \in DispatchSites \cup {TaskSite})
    => \A i \in FactoryCalls :
          /\ HasOption(trace[i], "temperature", TEMPERATURE)
          /\ HasOption(trace[i], "max_tokens", MAX_TOKENS)

-----------------------------------------------------------------------------
\* C12: every factory call is given a platform, a model identifier, a
\* credential and an options block; none is made with the platform left out,
\* the calls create_agent_for_task_automation makes for an enum member included.
C12_EveryCallNamesThePlatform ==
    \A i \in FactoryCalls :
        /\ trace[i].model_platform \in {p.platform : p \in KNOWN_PROVIDERS}
        /\ trace[i].model_type # NoneStr
        /\ ~Unset(trace[i].api_key)
        /\ "max_tokens" \in DOMAIN trace[i].model_config_dict

-----------------------------------------------------------------------------
\* the kind of failure an outcome reports: that of the last error it shows
failure_kind(o) ==
    IF o.trace # <<>> /\ o.trace[Len(o.trace)].op = "st.error"
    THEN o.trace[Len(o.trace)].kind
    ELSE "none"

\* what the function of the most recent invocation does, all capabilities
\* succeeding, for each other pair of arguments
OtherOutcomes ==
    IF last.site = "create_agent"
    THEN {create_agent(p, m, last.role, last.role_description, AllOk) :
              p \in ProviderInputs, m \in ModelInputs}
    ELSE IF last.site = "create_model_instance"
    THEN {create_model_instance(p, m, AllOk) : p \in ProviderInputs, m \in ModelInputs}
    ELSE IF last.site = TaskSite
    THEN {create_agent_for_task_automation(m, last.role, last.role_description, AllOk) :
              m \in TaskModelInputs}
    ELSE {}

\* C13: the value a provisioning function returns on a failure tells the kind
\* of the failure: two failures of different kinds (empty provider, empty
\* model, unknown provider, unknown prefix, missing credential, model creation
\* failed, exception) never return equal values.
C13_ReturnValueTellsFailureKind ==
    \A other \in OtherOutcomes :
        (/\ out.ret = None
         /\ other.ret = None
         /\ failure_kind(other) # failure_kind(out))
        => other.ret # out.ret

-----------------------------------------------------------------------------
\* agent and session constructions of the most recent invocation
Constructions == {i \in DOMAIN trace : trace[i].op \in {"ChatAgent", "RolePlaying"}}

\* C14: one press of a provisioning button makes at most one factory call and
\* at most one agent or session construction, and makes no call once it has
\* reported an error: nothing is tried a second time.
C14_AtMostOneCallPerAction ==
    (last.site \in ButtonSites)
    => /\ Cardinality(FactoryCalls) <= 1
       /\ Cardinality(Constructions) <= 1
       /\ \A e \in Errors : \A i \in FactoryCalls \cup Constructions : i < e

\* RolePlaying(...) raised after the one factory call of the press
C14_Witness ==
    /\ last.site = "RolePlayingStartButton"
    /\ out.exc # None
    /\ Cardinality(FactoryCalls) = 1
    /\ Cardinality(Constructions) = 1
    /\ FailedWith("RolePlayingInitFailed")

-----------------------------------------------------------------------------
IsEnvRead(e) == e.op = "os.getenv"
IsFactoryCall(e) == e.op = "ModelFactory.create"

\* the failures that end resolution: the input or the environment is at fault
RESOLUTION_FAILURES ==
    {"NoProviderSelected", "EmptyProvider", "EmptyModel", "InvalidProvider",
     "MissingCredential", "ModelMissingAfterPrefix", "UnknownProviderPrefix", "UnknownModel"}

WhatFactoryIsGiven(e) ==
    [model_platform |-> e.model_platform, model_type |-> e.model_type,
     api_key |-> e.api_key, model_config_dict |-> e.model_config_dict]

\* what an invocation resolved its inputs to: the credential reads, the
\* resolution failure if there is one, and what it handed to the factory
Resolved(o) ==
    [reads |-> SelectSeq(o.trace, IsEnvRead),
     failure |-> {o.trace[i].kind :
                     i \in {j \in DOMAIN o.trace :
                               /\ o.trace[j].op = "st.error"
                               /\ o.trace[j].kind \in RESOLUTION_FAILURES}},
     given |-> LET calls == SelectSeq(o.trace, IsFactoryCall)
               IN  [i \in DOMAIN calls |-> WhatFactoryIsGiven(calls[i])]]

\* the invocation got as far as resolution goes: no capability raised before
\* the factory was called
ResolutionRan(o) == o.exc = None \/ \E i \in DOMAIN o.trace : IsFactoryCall(o.trace[i])

-----------------------------------------------------------------------------
\* C16: create_agent with provider "OpenAI", model "gpt-4.1-mini" and
\* OPENAI_API_KEY set calls the factory with platform OPENAI and the string
\* "gpt-4.1-mini" as model (unless the config constructor raises first); when
\* the factory returns a handle and nothing raises it returns an agent built
\* over that handle.
C16_OpenAIScenario ==
    (/\ last.site = "create_agent"
     /\ last.provider_name = (* "OpenAI" *) <<"O","p","e","n","A","I">>
     /\ last.model_name = (* "gpt-4.1-mini" *) <<"g","p","t","-","4",".","1","-","m","i","n","i">>
     /\ ~Unset(env["OPENAI_API_KEY"]))
    => /\ \A i \in FactoryCalls :
             /\ trace[i].model_platform = "OPENAI"
             /\ trace[i].model_type = (* "gpt-4.1-mini" *) <<"g","p","t","-","4",".","1","-","m","i","n","i">>
             /\ trace[i].api_key = env["OPENAI_API_KEY"]
       /\ out.exc = None => Cardinality(FactoryCalls) = 1
       /\ \A i \in FactoryCalls :
             (out.exc = None /\ trace[i].returned # None)
             => /\ out.ret # None
                /\ out.ret.class = "ChatAgent"
                /\ out.ret.model = trace[i].returned

\* the scenario with every capability succeeding
C16_Witness ==
    /\ last.site = "create_agent"
    /\ last.provider_name = (* "OpenAI" *) <<"O","p","e","n","A","I">>
    /\ last.model_name = (* "gpt-4.1-mini" *) <<"g","p","t","-","4",".","1","-","m","i","n","i">>
    /\ env["OPENAI_API_KEY"] = (* "sk-1" *) <<"s","k","-","1">>
    /\ out.ret # None
    /\ \E i \in FactoryCalls : trace[i].model_type = (* "gpt-4.1-mini" *) <<"g","p","t","-","4",".","1","-","m","i","n","i">>


-----------------------------------------------------------------------------
\* the steps in which a save action wrote a file
SaveSites == {"SaveChatButton", "RolePlayingSaveButton", "SaveResultsButton"}

WroteFile(inv) ==
    /\ inv.site \in SaveSites
    /\ \E i \in DOMAIN inv.out.trace : inv.out.trace[i].op = "open"

\* C17: every successful save (of a conversation, a role-playing conversation
\* or task results) creates a file distinct from those of all earlier saves:
\* every file that was there before the save is still there unchanged after it,
\* and one more file exists, even for two saves within one clock second.
C17_SaveNeverOverwrites ==
    [][WroteFile(last')
       => /\ files \subseteq files'
          /\ Cardinality(files') = Cardinality(files) + 1]_vars

-----------------------------------------------------------------------------
\* the saved records of one directory, as the Visualization page loads them
SavedIn(dir) == {f \in files : f.path[1] = dir}

\* C18: for every record written by a save of the chat page or of the
\* role-playing page that holds n exchanged messages, the analytics
\* (analyze_conversation_stats, analyze_role_play_stats) report a message
\* count of n for that record.
C18_MessageCountRoundTrip ==
    /\ \A f \in SavedIn("conversation_history") :
          analyze_conversation_stats(<<f.data>>)[1].messages = Len(f.data.messages)
    /\ \A f \in SavedIn("role_play_history") :
          analyze_role_play_stats(<<f.data>>)[1].total_messages = Len(f.data.messages)

-----------------------------------------------------------------------------
\* the statuses the Task Automation page shows as Pending, In Progress and
\* Completed; it counts every other status as Failed/Error
NOT_FAILED == {"pending", "in_progress", "completed"}

-----------------------------------------------------------------------------
\* the position of a provider in the provider list, counted from 0, said
\* without list.index
PositionOf(name) ==
    CHOOSE n \in 0..(Len(provider_names) - 1) : provider_names[n + 1] = name

\* C20: after the Save Key action for a provider P, PRIMARY_CAMEL_PROVIDER
\* names P (in .env and in the environment), get_primary_provider_index of
\* that value is P's position in the provider list, and a new session that
\* follows selects P by default.
C20_PrimaryProviderRoundTrip ==
    /\ last.site = "SaveKeyButton"
       => /\ EqualIgnoringCase(primary_camel_provider, last.provider_name)
          /\ \E i \in DOMAIN dotenv :
                /\ dotenv[i].key = "PRIMARY_CAMEL_PROVIDER"
                /\ dotenv_value(dotenv[i].text) = primary_camel_provider
          /\ get_primary_provider_index(primary_camel_provider)
                = PositionOf(last.provider_name)
    /\ (last.site = "NewSession" /\ primary_camel_provider # NoneStr)
       => \E i \in DOMAIN provider_names :
             /\ EqualIgnoringCase(primary_camel_provider, provider_names[i])
             /\ selected_provider_index = i - 1

\* a key saved for OpenRouter, whose upper-cased name the title-case
\* conversion does not give back, and a new session opened after it
C20_Witness ==
    /\ last.site = "NewSession"
    /\ primary_camel_provider = (* "OPENROUTER" *) <<"O","P","E","N","R","O","U","T","E","R">>
    /\ selected_provider_index = 3
    /\ env["OPENROUTER_API_KEY"] = (* "sk-1" *) <<"s","k","-","1">>

-----------------------------------------------------------------------------
\* the environment variable of a provider of the Home page
EnvVarOf(name) == providers[PositionOf(name) + 1].env_var

\* C21: after the Save Key action with an empty key field for a provider,
\* that provider's credential is no longer available to the application:
\* after the save's reload os.getenv of the provider's variable is empty, so
\* the API status shows it as not set and the provider is absent from the
\* available-provider lists of the chat and role-playing pages.
C21_ClearedKeyIsGone ==
    (last.site = "SaveKeyButton" /\ last.model_name = <<>>)
    => /\ ~truthy(env[EnvVarOf(last.provider_name)])
       /\ last.provider_name \notin available_providers

-----------------------------------------------------------------------------
\* the statuses in which the Execute handler leaves a task it has worked on
FINISHED == {"completed", "completed_no_output", "error_no_response",
             "error_attribute", "error_execution"}

StatusIs(task_item, statuses) ==
    task_item \in DOMAIN task_status /\ task_status[task_item] \in statuses

\* C22: whenever Execute is pressed on a pending task with an agent present,
\* the task's status eventually becomes completed, completed_no_output or an
\* error status: no task remains in_progress forever (unless Clear All
\* removes it).
C22_InProgressEventuallyFinishes ==
    \A task_item \in TaskDescriptions :
        StatusIs(task_item, {"in_progress"})
        ~> (StatusIs(task_item, FINISHED) \/ task_item \notin DOMAIN task_status)

-----------------------------------------------------------------------------
\* C23: in every reachable state of the Task Automation page, Total (the
\* length of the task list) equals Completed + Pending + In Progress +
\* Failed/Error (the counts over the status map), and every task of the list
\* has a status entry of its own.
C23_TaskStatisticsAddUp ==
    LET statistics == page_task_statistics(task_status) IN
    /\ statistics.total_tasks =
          statistics.completed_tasks + statistics.pending_tasks
          + statistics.in_progress_tasks + statistics.failed_tasks
    /\ \A i \in DOMAIN tasks : tasks[i] \in DOMAIN task_status
    /\ \A i, j \in DOMAIN tasks : i # j => tasks[i] # tasks[j]

-----------------------------------------------------------------------------
\* C24: in every step other than Clear All, a task whose status has left
\* pending does not become pending again, and after the step no task that has
\* a recorded output is pending.
C24_StatusOnlyMovesForward ==
    [][last'.site # "ClearAllButton"
       => /\ \A task_item \in DOMAIN task_status :
                task_status[task_item] # "pending"
                => /\ task_item \in DOMAIN task_status'
                   /\ task_status'[task_item] # "pending"
          /\ \A task_item \in DOMAIN task_outputs' :
                ~(/\ task_item \in DOMAIN task_status'
                  /\ task_status'[task_item] = "pending")]_vars

-----------------------------------------------------------------------------
WithRole(msgs, role) == {i \in DOMAIN msgs : msgs[i].role = role}

\* C25: in every reachable state of the Chat Agents page each assistant
\* message of the message list is immediately preceded by a user message, so
\* assistant messages never outnumber user messages; and after an input whose
\* step raised or gave no valid response, the list ends with the user's
\* message: it stays, and no assistant message was appended.
C25_ChatLogShape ==
    /\ \A i \in WithRole(messages, "assistant") :
          i > 1 /\ messages[i - 1].role = "user"
    /\ Cardinality(WithRole(messages, "assistant")) <= Cardinality(WithRole(messages, "user"))
    /\ (last.site = "ChatInput" /\ Errors # {})
       => /\ messages # <<>>
          /\ messages[Len(messages)] = [role |-> "user", content |-> USER_INPUT]

\* an answered exchange followed by an input whose step failed
C25_Witness ==
    /\ last.site = "ChatInput"
    /\ Errors # {}
    /\ Len(messages) = 3
    /\ messages[2].role = "assistant"

-----------------------------------------------------------------------------
\* C26: in every reachable state role_playing_messages and
\* role_playing_conversation_history have the same length and the same
\* content at each index.
C26_RolePlayingLogsInLockstep ==
    /\ Len(role_playing_messages) = Len(role_playing_conversation_history)
    /\ \A i \in DOMAIN role_playing_messages \cap DOMAIN role_playing_conversation_history :
          role_playing_messages[i].content = role_playing_conversation_history[i].content

-----------------------------------------------------------------------------
CreateAgentSites == {"ChatCreateAgentButton", "TaskCreateAgentButton"}

\* C27: the session holds one agent slot, which the Chat Agents page and the
\* Task Automation page share: after a Create/Update Agent action of either
\* page the slot holds that action's result (the new agent, or no agent), and
\* the Task Automation page accepts a task exactly when the slot is not empty.
C27_OneSharedAgentSlot ==
    /\ last.site \in CreateAgentSites
       => IF out.ret # None
          THEN agent = [class |-> "ChatAgent", id |-> nextId]
          ELSE agent = None
    /\ last.site = "AddTaskButton" => agent # None
    /\ (ENABLED AddTaskButton) <=> agent # None

\* a task accepted by the Task Automation page over an agent that the Chat
\* Agents page created
C27_Witness ==
    /\ last.site = "AddTaskButton"
    /\ tasks # <<>>
    /\ agent = [class |-> "ChatAgent", id |-> 1]
    /\ env["OPENAI_API_KEY"] = NoneStr
    /\ env["ANTHROPIC_API_KEY"] # NoneStr

-----------------------------------------------------------------------------
\* the platform, the model identifier and the options of the factory calls of
\* an invocation
Options(call) ==
    [name \in DOMAIN call.model_config_dict \ {"class"} |-> call.model_config_dict[name]]

HandedToFactory(o) ==
    {[model_platform |-> o.trace[i].model_platform, model_type |-> o.trace[i].model_type,
      options |-> Options(o.trace[i])] :
        i \in {j \in DOMAIN o.trace : IsFactoryCall(o.trace[j])}}

\* C28: for a known provider p whose credential is set and a model name m,
\* create_agent(p, m), create_model_instance(p, m) and
\* create_agent_for_task_automation("p:m") hand the model factory the same
\* platform, the same model identifier and the same options.
C28_ThreeSitesAgree ==
    (/\ last.site = "create_agent"
     /\ Named(last.provider_name) # {}
     /\ FactoryCalls # {})
    => /\ HandedToFactory(create_model_instance(last.provider_name, last.model_name, AllOk))
             = HandedToFactory(out)
       /\ HandedToFactory(create_agent_for_task_automation(
                              lower(last.provider_name) \o <<":">> \o last.model_name,
                              last.role, last.role_description, AllOk))
             = HandedToFactory(out)

-----------------------------------------------------------------------------
\* the variables a .env file holds, and the value the application reads for
\* one of them
KeysOf(lines) == {lines[i].key : i \in DOMAIN lines}
ValueIn(lines, name) == load_dotenv_override(lines, name, NoneStr)

\* C29: the Save Key action for a provider leaves every other entry of .env
\* present with the same value (only the provider's key and
\* PRIMARY_CAMEL_PROVIDER may change), and repeating the same save leaves the
\* file content unchanged.
C29_SaveKeyPreservesOtherEntries ==
    [][last'.site = "SaveKeyButton"
       => /\ \A name \in KeysOf(dotenv) \ {EnvVarOf(last'.provider_name),
                                           "PRIMARY_CAMEL_PROVIDER"} :
                /\ name \in KeysOf(dotenv')
                /\ ValueIn(dotenv', name) = ValueIn(dotenv, name)
          /\ (/\ last.site = "SaveKeyButton"
              /\ last.provider_name = last'.provider_name
              /\ last.model_name = last'.model_name)
             => dotenv' = dotenv]_vars
-----------------------------------------------------------------------------
Next ==
    \/ CallCreateAgent
    \/ CallCreateModelInstance
    \/ CallCreateAgentForTaskAutomation
    \/ CallCreateSimpleAgent

Spec == Init /\ [][Next]_vars

\* The pages of one session: the user presses the provisioning buttons in any order
NextPages ==
    \/ ChatCreateAgentButton
    \/ TaskCreateAgentButton
    \/ RolePlayingStartButton

SpecPages == InitPages /\ [][NextPages]_vars

\* The pages in use: the user chats, adds and executes tasks, saves and clears,
\* while time passes
NextSession ==
    \/ Tick
    \/ (Len(messages) + 2 <= MaxSessionMessages /\ ChatInput)
    \/ ClearChatButton
    \/ SaveChatButton
    \/ (Len(role_playing_messages) + 2 <= MaxSessionMessages /\ RolePlayingInput)
    \/ RolePlayingClearButton
    \/ RolePlayingSaveButton
    \/ (Len(tasks) < MaxSessionTasks /\ AddTaskButton)
    \/ ExecuteTaskButton
    \/ ClearAllButton
    \/ SaveResultsButton

SpecSession == InitSession /\ [][NextSession]_vars

\* The Home page in use
NextHome ==
    \/ NewSession
    \/ SelectProvider
    \/ SaveKeyButton

SpecHome == InitHome /\ [][NextHome]_vars

\* The Task Automation page in use, with an agent present
NextTasks ==
    \/ AddTaskButton
    \/ ExecuteTaskButton
    \/ ClearAllButton

SpecTasks == InitSession /\ [][NextTasks]_vars

\* Streamlit runs the script again after every st.rerun() and every widget
\* event; nothing but the Execute handler itself works on a task, and the
\* handler is taken to run whenever it stays possible
SpecTasksLive == SpecTasks /\ WF_vars(ExecuteTaskButton)

\* The Chat Agents page in use: the agent is created, the user chats and clears
NextChat ==
    \/ ChatCreateAgentButton
    \/ ChatInput
    \/ ClearChatButton

SpecChat == InitPages /\ [][NextChat]_vars

\* The Role Playing page in use: sessions are started, the user writes and clears
NextRolePlay ==
    \/ RolePlayingStartButton
    \/ RolePlayingInput
    \/ RolePlayingClearButton

SpecRolePlay == InitPages /\ [][NextRolePlay]_vars

\* The agent slot of the session, as the Chat Agents page and the Task
\* Automation page use it
NextAgentSlot ==
    \/ ChatCreateAgentButton
    \/ TaskCreateAgentButton
    \/ AddTaskButton

SpecAgentSlot == InitPages /\ [][NextAgentSlot]_vars

====
